---------------------------- MODULE Spec2Model ----------------------------
(***************************************************************************)
(* Model of util/gn_to_cmake_script.py: the gn_to_cmake driver, the        *)
(* per-node Target view and the dependency walk of                         *)
(* Target.find_all_dependencies / recursive_find_dependent_targets; of     *)
(* Target.get_cmake_target_name called on its own; and of the              *)
(* SubspecTarget view of util/gn_to_podspec_script.py with its flatten.    *)
(* The three are three specifications over one set of variables; each      *)
(* leaves the variables of the other two at their idle values.             *)
(*                                                                         *)
(* Python strings are sequences of one-character strings, so that find,    *)
(* slicing, split and endswith are computed and not assumed.  A Python set *)
(* of Target objects is a sequence of gn names, one entry per object added *)
(* (Target defines neither __eq__ nor __hash__, so two objects of one name *)
(* are two members).                                                       *)
(***************************************************************************)
EXTENDS Integers, Sequences, FiniteSets, TLC

VARIABLES
  targets,                  \* project.targets: gn name -> properties
  cmake_targets,            \* the root names handed to gn_to_cmake
  ri,                       \* position of gn_to_cmake's for loop (1-based)
  pc,                       \* where the program is; "done" or "crashed" at its end
  error,                    \* the exception that ended the run, or "none"
  start_target,             \* gn name of the root being resolved, <<>> if none
  all_deps_source_targets,  \* names of the objects added, in order of addition
  all_deps_binary_targets,
  has_checked_targets,      \* keys of the dict (its values are the first objects)
  dep_actions,              \* dep_actions of the object has_checked_targets maps a name to
  stack,                    \* frames of the walk: [target, i], innermost last
  dep_target,               \* the dep object the innermost loop built last
  walks,                    \* per name: how often its deps loop was entered
  results,                  \* what write_project received from each finished resolve
  deps_packages,            \* deps_packages of the root object: name -> entry
  link_modules,             \* link_modules of the root object
  nested,                   \* write_project calls under way: [target, sub_cmake_target, j]
  gn_names,                 \* the gn names get_cmake_target_name is called on, in turn
  identifiers,              \* what these calls returned or raised, in order
  subspecs,                 \* project.targets as gn_to_podspec_script.py reads it
  frames,                   \* SubspecTarget objects under construction, innermost last
  flattened                 \* the SubspecTarget that was built, <<>> before

package_vars == <<deps_packages, link_modules>>

naming_vars == <<gn_names, identifiers>>

podspec_vars == <<subspecs, frames, flattened>>

vars == <<targets, cmake_targets, ri, pc, error, start_target,
          all_deps_source_targets, all_deps_binary_targets,
          has_checked_targets, dep_actions, stack, dep_target, walks, results,
          package_vars, nested, naming_vars, podspec_vars>>

------------------------------------------------------------------------------
(* Bounds of the model.                                                     *)

MaxDeps == 2

MaxSources == 2

\* the depth of nested write_project calls at which the interpreter raises
\* RecursionError
MaxNesting == 3

------------------------------------------------------------------------------
(* Python string primitives on sequences of characters (0-based indices).   *)

Min(S) == CHOOSE x \in S : \A y \in S : x <= y

Max(S) == CHOOSE x \in S : \A y \in S : x >= y

\* s[i:j] for non-negative i and j (Python clamps both to len(s)).
Slice(s, i, j) ==
  LET lo == IF i < 0 THEN 0 ELSE IF i > Len(s) THEN Len(s) ELSE i
      hi == IF j < 0 THEN 0 ELSE IF j > Len(s) THEN Len(s) ELSE j
  IN  IF hi <= lo THEN <<>> ELSE SubSeq(s, lo + 1, hi)

\* s.find(c, start): index of the first c at or after start, -1 if none.
Find(s, c, start) ==
  LET hits == {k \in 0..(Len(s) - 1) : k >= start /\ s[k + 1] = c}
  IN  IF hits = {} THEN -1 ELSE Min(hits)

\* s.endswith(suffix)
EndsWith(s, suffix) ==
  /\ Len(suffix) <= Len(s)
  /\ Slice(s, Len(s) - Len(suffix), Len(s)) = suffix

\* s.startswith(prefix)
StartsWith(s, prefix) ==
  /\ Len(prefix) <= Len(s)
  /\ Slice(s, 0, Len(prefix)) = prefix

RECURSIVE Replace(_, _, _)
\* s.replace(old, new) for a non-empty old: every occurrence, left to right
Replace(s, old, new) ==
  IF Len(s) < Len(old) THEN s
  ELSE IF Slice(s, 0, Len(old)) = old
  THEN new \o Replace(Slice(s, Len(old), Len(s)), old, new)
  ELSE <<s[1]>> \o Replace(Tail(s), old, new)

\* the dict d after d[k] = v
Put(d, k, v) == [x \in DOMAIN d \cup {k} |-> IF x = k THEN v ELSE d[x]]

------------------------------------------------------------------------------
(* Module-level tables.                                                     *)

None == [py_none |-> TRUE]

CMakeTargetType(command, is_linkable, is_dependency_barrier) ==
  [command |-> command, is_linkable |-> is_linkable,
   is_dependency_barrier |-> is_dependency_barrier]

custom == CMakeTargetType("add_custom_target", FALSE, FALSE)

cmake_target_types ==
  [k \in {"unknown", "group", "executable", "loadable_module", "shared_library",
          "static_library", "source_set", "copy", "action", "action_foreach",
          "bundle_data", "create_bundle"} |->
     CASE k = "executable"      -> CMakeTargetType("add_executable", TRUE, TRUE)
       [] k = "loadable_module" -> CMakeTargetType("add_library", TRUE, TRUE)
       [] k = "shared_library"  -> CMakeTargetType("add_library", TRUE, TRUE)
       [] k = "static_library"  -> CMakeTargetType("add_library", TRUE, FALSE)
       [] k = "source_set"      -> CMakeTargetType("add_library", FALSE, FALSE)
       [] OTHER                 -> custom]

SCRIPT_TARGETS == {"copy", "action", "action_foreach"}

------------------------------------------------------------------------------
(* Naming: Target.get_cmake_target_name and its helpers.  A call either     *)
(* returns a string or raises; Returned/Raised are the two outcomes.        *)

Returned(v) == [raised |-> "none", value |-> v]

Raised(e) == [raised |-> e, value |-> <<>>]

RECURSIVE Split(_, _)
\* path.split(sep) for a one-character sep
Split(s, sep) ==
  LET k == Find(s, sep, 0)
  IN  IF k = -1 THEN <<s>>
      ELSE <<Slice(s, 0, k)>> \o Split(Slice(s, k + 1, Len(s)), sep)

RECURSIVE Join(_, _)
\* sep.join(parts)
Join(parts, sep) ==
  IF Len(parts) = 0 THEN <<>>
  ELSE IF Len(parts) = 1 THEN parts[1]
  ELSE parts[1] \o <<sep>> \o Join(Tail(parts), sep)

ascii_letters ==
  {"a", "b", "c", "d", "e", "f", "g", "h", "i", "j", "k", "l", "m",
   "n", "o", "p", "q", "r", "s", "t", "u", "v", "w", "x", "y", "z",
   "A", "B", "C", "D", "E", "F", "G", "H", "I", "J", "K", "L", "M",
   "N", "O", "P", "Q", "R", "S", "T", "U", "V", "W", "X", "Y", "Z"}

digits == {"0", "1", "2", "3", "4", "5", "6", "7", "8", "9"}

\* variant: ':' is kept, as CMake allows it in the names of imported targets
Escape_keeps_colon(c) ==
  IF c \in ascii_letters \/ c \in digits \/ c \in {"_", ".", "+", "-", ":"}
  THEN <<c>> ELSE <<"_", "_">>

Escape(c) ==
  IF c \in ascii_letters \/ c \in digits \/ c \in {"_", ".", "+", "-"}
  THEN <<c>> ELSE <<"_", "_">>

RECURSIVE cmake_target_escape(_)
cmake_target_escape(a) ==
  IF a = <<>> THEN <<>> ELSE Escape(Head(a)) \o cmake_target_escape(Tail(a))

\* min(s.find(i) for i in a if i in s): ValueError on an empty sequence
find_first_of(s, a) ==
  LET found == {Find(s, c, 0) : c \in {x \in a : Find(s, x, 0) # -1}}
  IN  IF found = {} THEN Raised("ValueError") ELSE Returned(Min(found))

extract_initial_path(path) ==
  LET parts == Split(path, "/")
      initials == [k \in 1..Len(parts) |->
                     IF parts[k] # <<>> THEN <<parts[k][1]>> ELSE <<>>]
  IN  Join(initials, "/")

\* variant: the toolchain is left out of the name
cmake_target_name_without_toolchain(location, name, toolchain) ==
  cmake_target_escape(
    IF EndsWith(location, <<"/">> \o name) THEN location
    ELSE IF location # <<>> THEN location \o <<"_">> \o name
    ELSE name)

\* lines 335-344: the name built from the three parts, escaped
cmake_target_name_of(location, name, toolchain) ==
  cmake_target_escape(
    (IF EndsWith(location, <<"/">> \o name) THEN location
     ELSE IF location # <<>> THEN location \o <<"_">> \o name
     ELSE name)
    \o (IF toolchain # <<>> THEN <<"-", "-">> \o toolchain ELSE <<>>))

\* lines 330-344: "assert location or name", the location compressed, and
\* '/' + name, a TypeError while name is None
name_from_parts(location, name_is_none, name, toolchain) ==
  IF location = <<>> /\ name = <<>> THEN Raised("AssertionError")
  ELSE IF name_is_none THEN Raised("TypeError")
  ELSE Returned(cmake_target_name_of(
         IF location # <<>> THEN extract_initial_path(location) ELSE location,
         name, toolchain))

\* lines 318-329: location, name and toolchain cut out of gn_name
name_from_separators(gn_name, path_separator, toolchain_separator) ==
  IF path_separator = 0
  THEN name_from_parts(Slice(gn_name, 2, Len(gn_name)), TRUE, <<>>, <<>>)
  ELSE IF toolchain_separator = -1
  THEN name_from_parts(Slice(gn_name, 2, path_separator), FALSE,
                       Slice(gn_name, path_separator + 1, Len(gn_name)), <<>>)
  ELSE IF ~EndsWith(gn_name, <<")">>) THEN Raised("AssertionError")
  ELSE name_from_parts(
         Slice(gn_name, 2, path_separator),
         ~(toolchain_separator > path_separator),
         IF toolchain_separator > path_separator
         THEN Slice(gn_name, path_separator + 1, toolchain_separator)
         ELSE <<>>,
         Slice(gn_name, toolchain_separator + 1, Len(gn_name) - 1))

\* lines 314-329, given what find_first_of returned or raised
name_after_find(gn_name, sep) ==
  IF sep.raised # "none" THEN sep
  ELSE name_from_separators(gn_name, sep.value, Find(gn_name, "(", sep.value))

get_cmake_target_name(gn_name) ==
  name_after_find(gn_name, find_first_of(gn_name, {":", "("}))

------------------------------------------------------------------------------
(* The per-node view: Metadata and Target.__init__.                         *)

get_first_var(var_list, default_val) ==
  IF Len(var_list) > 0 THEN var_list[1] ELSE default_val

\* Project.root_path, taken from build_settings
root_path == <<"/", "r">>

ROOT_PATH == <<"$", "{", "R", "O", "O", "T", "_", "P", "A", "T", "H", "}">>

get_absolute_path(path) ==
  IF StartsWith(path, <<"/", "/">>)
  THEN root_path \o Slice(path, 1, Len(path))
  ELSE path

\* on a platform that is neither cygwin nor win
instead_source_path_prefix(path) ==
  Replace(get_absolute_path(path), root_path, ROOT_PATH)

instead_source_path_prefix_list(paths_list) ==
  [k \in 1..Len(paths_list) |-> instead_source_path_prefix(paths_list[k])]

\* package[2] == "cmake::configd", package[2] being the first entry after
\* the search paths
configd_of(package) == package.rest[1] = "cmake::configd"

\* package[start_index:]
modules_of(package) ==
  IF configd_of(package)
  THEN {package.rest[k] : k \in 2..Len(package.rest)}
  ELSE {package.rest[k] : k \in 1..Len(package.rest)}

\* packages[package_name] = [configd, search_paths]; the list of search
\* paths is kept as the set of its entries
package_entry(package) ==
  [configd |-> configd_of(package),
   search_paths |->
     {instead_source_path_prefix_list(package.search_paths)[k] :
        k \in 1..Len(package.search_paths)}]

RECURSIVE find_all_deps_packages_from(_, _, _, _)
\* the for loop of find_all_deps_packages from its k-th package on;
\* package[2] raises IndexError on a package of two entries
find_all_deps_packages_from(find_and_link_packages, k, packages, modules) ==
  IF k > Len(find_and_link_packages)
  THEN Returned([packages |-> packages, modules |-> modules])
  ELSE IF find_and_link_packages[k].rest = <<>> THEN Raised("IndexError")
  ELSE find_all_deps_packages_from(
         find_and_link_packages, k + 1,
         Put(packages, find_and_link_packages[k].name,
             package_entry(find_and_link_packages[k])),
         modules \cup modules_of(find_and_link_packages[k]))

find_all_deps_packages(find_and_link_packages) ==
  find_all_deps_packages_from(find_and_link_packages, 1, <<>>, {})

\* What collect_sub_cmake_target does to self.libs and what it returns or
\* raises.
Collected(outcome, libs) ==
  [raised |-> outcome.raised, value |-> outcome.value, libs |-> libs]

\* variant: the name "project" is bound where line 181 reads it
collect_sub_cmake_target_project_bound(self_libs, metadata) ==
  IF \E k \in 1..Len(metadata.sub_cmake_target_and_link) :
       metadata.sub_cmake_target_and_link[k] \notin DOMAIN targets
  THEN Collected(Raised("KeyError"), self_libs)
  ELSE Collected(
         Returned(metadata.sub_cmake_target_and_link \o metadata.sub_cmake_target),
         self_libs \o
           [k \in 1..Len(metadata.sub_cmake_target_and_link) |->
              targets[metadata.sub_cmake_target_and_link[k]].output_name])

\* "self.libs.append(Target(sub, project).output_name)": no name "project"
\* is bound in this scope or in the module, so that the argument raises
\* NameError before append is called
collect_sub_cmake_target(self_libs, metadata) ==
  IF metadata.sub_cmake_target_and_link # <<>>
  THEN Collected(Raised("NameError"), self_libs)
  ELSE Collected(
         Returned(metadata.sub_cmake_target_and_link \o metadata.sub_cmake_target),
         self_libs)

\* What a call of Target(gn_name, project) comes to: the exception raised
\* or the object, and the libs list of the properties it read (self.libs
\* is that very list).
Built(gn_name, outcome, libs) ==
  [raised |-> outcome.raised, value |-> outcome.value,
   gn_name |-> gn_name, libs |-> libs]

\* lines 134-168, once project.targets[gn_name] was found and the name,
\* the packages and the nested roots were computed
Target_of(gn_name, properties, cmake_name, packages, sub) ==
  IF cmake_name.raised # "none"
  THEN Built(gn_name, Raised(cmake_name.raised), properties.libs)
  ELSE IF packages.raised # "none"
  THEN Built(gn_name, Raised(packages.raised), properties.libs)
  ELSE IF sub.raised # "none"
  THEN Built(gn_name, Raised(sub.raised), sub.libs)
  ELSE Built(gn_name, Returned(
         [gn_name |-> gn_name,
          gn_type |-> properties.type,
          output_name |-> properties.output_name,
          deps |-> properties.deps,
          libs |-> sub.libs,
          sources |-> properties.sources,
          is_cmake_target |->
            get_first_var(properties.metadata.is_cmake_target, FALSE),
          is_only_sub_cmake |->
            get_first_var(properties.metadata.is_only_sub_cmake, FALSE),
          cmake_name |-> cmake_name.value,
          cmake_type |-> IF properties.type \in DOMAIN cmake_target_types
                         THEN cmake_target_types[properties.type]
                         ELSE None,
          deps_packages |-> packages.value.packages,
          link_modules |-> packages.value.modules,
          sub_cmake_target |-> sub.value]), sub.libs)

\* Target(gn_name, project): the object, or the exception __init__ raises.
Target(gn_name) ==
  IF gn_name \notin DOMAIN targets THEN Built(gn_name, Raised("KeyError"), <<>>)
  ELSE Target_of(
         gn_name, targets[gn_name], get_cmake_target_name(gn_name),
         find_all_deps_packages(targets[gn_name].metadata.find_and_link_packages),
         collect_sub_cmake_target(targets[gn_name].libs, targets[gn_name].metadata))

\* project.targets once a call of Target has come to t
targets_after(t) ==
  IF t.gn_name \in DOMAIN targets
  THEN [targets EXCEPT ![t.gn_name].libs = t.libs]
  ELSE targets

\* add_deps_packages: the packages of target merged into those of self
add_deps_packages(self_packages, target) ==
  [n \in DOMAIN self_packages \cup DOMAIN target.deps_packages |->
     IF n \in DOMAIN self_packages /\ n \in DOMAIN target.deps_packages
     THEN [configd |-> self_packages[n].configd \/ target.deps_packages[n].configd,
           search_paths |-> self_packages[n].search_paths
                              \cup target.deps_packages[n].search_paths]
     ELSE IF n \in DOMAIN self_packages THEN self_packages[n]
     ELSE target.deps_packages[n]]

\* add_deps_packages: the link modules of target merged into those of self
add_link_modules(self_modules, target) == self_modules \cup target.link_modules

should_check_sources_target(target) ==
  target.gn_type \in {"executable", "loadable_module", "shared_library",
                      "static_library", "source_set", "group"}

\* variant: only the .h suffix is tested
is_useful_target_h_only(target) ==
  IF ~should_check_sources_target(target) THEN TRUE
  ELSE \E k \in 1..Len(target.sources) :
         ~EndsWith(target.sources[k], <<".", "h">>)

is_useful_target(target) ==
  IF ~should_check_sources_target(target) THEN TRUE
  ELSE \E k \in 1..Len(target.sources) :
         /\ ~EndsWith(target.sources[k], <<".", "h">>)
         /\ ~EndsWith(target.sources[k], <<".", "h", "p", "p">>)

\* variant: the flag alone decides, is_dependency_barrier is not consulted
is_barrier_by_flag_only(target) == target.is_cmake_target

\* variant: the is_cmake_target flag is not consulted
is_barrier_by_kind_only(target) ==
  IF target.cmake_type = None THEN FALSE
  ELSE target.cmake_type.is_dependency_barrier

\* main_target.is_cmake_target or main_target.cmake_type.is_dependency_barrier,
\* for a target whose cmake_type is not None
is_barrier(target) ==
  IF target.is_cmake_target THEN TRUE
  ELSE target.cmake_type.is_dependency_barrier

\* the same test when it raises: cmake_type is None and the flag did not
\* short-circuit the attribute access
barrier_test_raises(target) ==
  ~target.is_cmake_target /\ target.cmake_type = None

------------------------------------------------------------------------------
(* The projects and root lists the model is run on.                         *)

A == <<"/", "/", "a", ":", "a">>

B == <<"/", "/", "a", ":", "b">>

C == <<"/", "/", "b", "/", "c", ":", "c">>

\* an id no project defines
X == <<"/", "/", "x", ":", "x">>

a_h == <<"a", ".", "h">>

a_hpp == <<"a", ".", "h", "p", "p">>

a_cc == <<"a", ".", "c", "c">>

a_hh == <<"a", ".", "h", "h">>

Properties(type, sources, is_cmake_target, is_only_sub_cmake, deps) ==
  [type |-> type, sources |-> sources, deps |-> deps,
   libs |-> <<>>, output_name |-> <<>>,
   metadata |-> [is_cmake_target |-> is_cmake_target,
                 is_only_sub_cmake |-> is_only_sub_cmake,
                 find_and_link_packages |-> <<>>,
                 sub_cmake_target |-> <<>>,
                 sub_cmake_target_and_link |-> <<>>]]

\* duplicate-free sequences of length <= n over S
DepSeqs(S, n) ==
  {q \in UNION {[1..k -> S] : k \in 0..n} :
     \A i, j \in 1..Len(q) : i # j => q[i] # q[j]}

Node(profile, deps) ==
  Properties(profile[1], profile[2], profile[3], profile[4], deps)

Project(pa, da, pb, db, pc_, dc) ==
  (A :> Node(pa, da)) @@ (B :> Node(pb, db)) @@ (C :> Node(pc_, dc))

\* Profiles (type, sources, is_cmake_target, is_only_sub_cmake) of A, the
\* root every list below asks for, and of B and C.
ProfilesA ==
  {<<"static_library", <<a_h, a_cc>>, <<>>, <<>>>>,
   <<"static_library", <<a_h>>, <<>>, <<>>>>,
   <<"executable", <<a_cc>>, <<>>, <<>>>>,
   <<"source_set", <<a_cc>>, <<>>, <<>>>>,
   <<"shared_library", <<a_cc>>, <<TRUE>>, <<TRUE>>>>,
   <<"generated_file", <<>>, <<>>, <<>>>>}

ProfilesB ==
  {<<"source_set", <<a_cc>>, <<>>, <<>>>>,
   <<"source_set", <<a_cc>>, <<TRUE>>, <<>>>>,
   <<"static_library", <<a_h, a_hpp>>, <<>>, <<>>>>,
   <<"static_library", <<a_cc>>, <<>>, <<>>>>,
   <<"group", <<>>, <<>>, <<>>>>,
   <<"executable", <<a_cc>>, <<>>, <<>>>>,
   <<"shared_library", <<a_cc>>, <<TRUE>>, <<>>>>,
   <<"loadable_module", <<>>, <<FALSE>>, <<>>>>,
   <<"action", <<>>, <<>>, <<>>>>,
   <<"bundle_data", <<a_h>>, <<>>, <<>>>>,
   <<"generated_file", <<>>, <<>>, <<>>>>,
   <<"generated_file", <<>>, <<TRUE>>, <<>>>>}

ProfilesC ==
  {<<"source_set", <<a_cc>>, <<>>, <<>>>>,
   <<"copy", <<>>, <<>>, <<>>>>,
   <<"action_foreach", <<a_cc>>, <<>>, <<>>>>}

\* Every shape of the deps lists, for a few profiles.
ShapeProfiles ==
  {<<<<"static_library", <<a_h, a_cc>>, <<>>, <<>>>>,
     <<"source_set", <<a_cc>>, <<>>, <<>>>>,
     <<"action", <<>>, <<>>, <<>>>>>>,
   <<<<"static_library", <<a_h>>, <<>>, <<>>>>,
     <<"executable", <<a_cc>>, <<>>, <<>>>>,
     <<"source_set", <<a_cc>>, <<>>, <<>>>>>>,
   <<<<"executable", <<a_cc>>, <<>>, <<>>>>,
     <<"group", <<>>, <<>>, <<>>>>,
     <<"copy", <<>>, <<>>, <<>>>>>>,
   <<<<"shared_library", <<a_cc>>, <<>>, <<>>>>,
     <<"generated_file", <<>>, <<>>, <<>>>>,
     <<"source_set", <<a_h, a_cc>>, <<TRUE>>, <<>>>>>>}

ShapeProjects ==
  {Project(p[1], da, p[2], db, p[3], dc) :
     p \in ShapeProfiles,
     da \in DepSeqs({A, B, C, X}, MaxDeps),
     db \in DepSeqs({A, B, C, X}, MaxDeps),
     dc \in DepSeqs({A, B}, MaxDeps - 1)}

\* Every profile, for a few shapes of the deps lists (deps of A, B, C).
KindShapes ==
  {<<<<B, C>>, <<C>>, <<>>>>,
   <<<<C, B>>, <<X>>, <<A>>>>,
   <<<<C, B>>, <<>>, <<>>>>,
   <<<<B>>, <<A, C>>, <<B>>>>,
   <<<<C>>, <<>>, <<B, X>>>>}

KindProjects ==
  {Project(pa, d[1], pb, d[2], pc_, d[3]) :
     pa \in ProfilesA, pb \in ProfilesB, pc_ \in ProfilesC, d \in KindShapes}

\* Every kind with every short list of sources, as the one dep of a root.
AllKinds ==
  {"unknown", "group", "executable", "loadable_module", "shared_library",
   "static_library", "source_set", "copy", "action", "action_foreach",
   "bundle_data", "create_bundle", "generated_file"}

SourceLists == UNION {[1..k -> {a_h, a_hpp, a_cc, a_hh}] : k \in 0..MaxSources}

SourceProjects ==
  {Project(<<"static_library", <<a_cc>>, <<>>, <<>>>>, <<B>>,
           <<k, srcs, <<>>, <<>>>>, <<>>,
           <<"source_set", <<a_cc>>, <<>>, <<>>>>, <<>>) :
     k \in AllKinds, srcs \in SourceLists}

RootLists == {<<A>>, <<X, A>>, <<A, B>>}

\* Packages: [package_name, search_paths, optional flag, module...], the
\* entries after the search paths being kept together as rest.
Package(name, search_paths, rest) ==
  [name |-> name, search_paths |-> search_paths, rest |-> rest]

p_dir == <<"/", "/", "p">>

q_dir == <<"/", "/", "q">>

\* the directory of p_dir, written as an absolute path
p_abs == <<"/", "r", "/", "p">>

Foo_p == Package("Foo", <<p_dir>>, <<"m1">>)

Foo_q == Package("Foo", <<q_dir>>, <<"cmake::configd", "m2">>)

Foo_abs == Package("Foo", <<p_abs, q_dir>>, <<"m1", "m3">>)

Bar_q == Package("Bar", <<q_dir>>, <<"cmake::configd">>)

\* a package of two entries: no flag and no module
Foo_bare == Package("Foo", <<p_dir>>, <<>>)

WithPackages(node, find_and_link_packages) ==
  [node EXCEPT !.metadata.find_and_link_packages = find_and_link_packages]

PackageListsA == {<<>>, <<Foo_p>>, <<Bar_q>>}

PackageListsB ==
  {<<>>, <<Foo_p>>, <<Foo_q>>, <<Foo_p, Foo_q>>, <<Foo_q, Bar_q>>, <<Foo_bare>>}

PackageListsC == {<<>>, <<Foo_q>>, <<Foo_abs>>, <<Bar_q, Foo_p>>}

\* profiles of B in the package projects: useful, headers only, a barrier
PackageProfilesB ==
  {<<"source_set", <<a_cc>>, <<>>, <<>>>>,
   <<"static_library", <<a_h>>, <<>>, <<>>>>,
   <<"shared_library", <<a_cc>>, <<>>, <<>>>>}

\* deps of A and of B; C has none
PackageShapes == {<<<<B, C>>, <<>>>>, <<<<C, B>>, <<>>>>, <<<<B>>, <<C>>>>, <<<<B, C>>, <<C>>>>}

PackageProjects ==
  {(A :> WithPackages(Node(<<"static_library", <<a_cc>>, <<>>, <<>>>>, d[1]), la))
   @@ (B :> WithPackages(Node(pb, d[2]), lb))
   @@ (C :> WithPackages(Node(<<"source_set", <<a_cc>>, <<>>, <<>>>>, <<>>), lc)) :
     la \in PackageListsA, lb \in PackageListsB, lc \in PackageListsC,
     pb \in PackageProfilesB, d \in PackageShapes}

\* Nested roots: sub_cmake_target_and_link of one node, and the libs and
\* output_name the properties carry.
WithSubCmake(node, libs, output_name, sub_cmake_target_and_link) ==
  [node EXCEPT !.libs = libs, !.output_name = output_name,
               !.metadata.sub_cmake_target_and_link = sub_cmake_target_and_link]

lib_z == <<"z">>

out_a == <<"l", "i", "b", "a">>

out_b == <<"l", "i", "b", "b">>

out_c == <<"l", "i", "b", "c">>

SubCmakeLists == {<<>>, <<C>>, <<X>>}

SubCmakeProjects ==
  {(A :> WithSubCmake(Node(<<"static_library", <<a_cc>>, <<>>, <<>>>>, <<B>>),
                      la, out_a, sa))
   @@ (B :> WithSubCmake(Node(<<"source_set", <<a_cc>>, <<>>, <<>>>>, <<C>>),
                         lb, out_b, sb))
   @@ (C :> WithSubCmake(Node(<<"shared_library", <<a_cc>>, <<>>, <<>>>>, <<>>),
                         <<>>, out_c, <<>>)) :
     la \in {<<>>, <<lib_z>>}, lb \in {<<>>, <<lib_z>>},
     sa \in SubCmakeLists, sb \in SubCmakeLists}

\* Nested roots: sub_cmake_target of one node.
WithNested(node, sub_cmake_target) ==
  [node EXCEPT !.metadata.sub_cmake_target = sub_cmake_target]

\* A, B and C with nested roots that are absent, not linkable, flagged
\* is_only_sub_cmake, or that name a node above them
NestedProjects ==
  {(A :> WithNested(Node(<<"static_library", <<a_cc>>, <<>>, <<>>>>, <<>>), sa))
   @@ (B :> WithNested(Node(<<tb, <<a_cc>>, <<>>, ob>>, <<C>>), sb))
   @@ (C :> Node(<<"shared_library", <<a_cc>>, <<>>, <<>>>>, <<>>)) :
     sa \in {<<>>, <<A>>, <<B>>, <<B, C>>, <<X>>},
     sb \in {<<>>, <<A>>, <<C>>},
     tb \in {"static_library", "source_set"},
     ob \in {<<>>, <<TRUE>>}}

------------------------------------------------------------------------------
(* State machine.                                                           *)

NoTarget == <<>>

NoDep == [gn_name |-> <<>>, dep_actions |-> {}]

\* get_cmake_target_name is not being called on its own
NamingIdle == gn_names = <<>> /\ identifiers = <<>>

\* no SubspecTarget is being built
PodspecIdle == subspecs = <<>> /\ frames = <<>> /\ flattened = <<>>

Init ==
  /\ \/ targets \in ShapeProjects /\ cmake_targets = <<A>>
     \/ targets \in KindProjects /\ cmake_targets \in RootLists
     \/ targets \in SourceProjects /\ cmake_targets = <<A>>
     \/ targets \in PackageProjects /\ cmake_targets = <<A>>
     \/ targets \in SubCmakeProjects /\ cmake_targets \in {<<A>>, <<B, A>>}
     \/ targets \in NestedProjects /\ cmake_targets \in {<<A>>, <<B, A>>}
  /\ ri = 1
  /\ pc = "loop"
  /\ error = "none"
  /\ start_target = NoTarget
  /\ all_deps_source_targets = <<>>
  /\ all_deps_binary_targets = <<>>
  /\ has_checked_targets = {}
  /\ dep_actions = <<>>
  /\ stack = <<>>
  /\ dep_target = NoDep
  /\ walks = <<>>
  /\ results = <<>>
  /\ deps_packages = <<>>
  /\ link_modules = {}
  /\ nested = <<>>
  /\ NamingIdle
  /\ PodspecIdle

walk_vars == <<start_target, all_deps_source_targets, all_deps_binary_targets,
               has_checked_targets, dep_actions, stack, dep_target, walks,
               package_vars>>

\* what no step of gn_to_cmake writes
given_vars == <<cmake_targets, naming_vars, podspec_vars>>

\* what no step of the walk writes
fixed_vars == <<given_vars, nested>>

\* gn_to_cmake: "if target_name not in project.targets.keys(): ... continue"
gn_to_cmake_not_existed ==
  /\ pc = "loop" /\ ri <= Len(cmake_targets)
  /\ cmake_targets[ri] \notin DOMAIN targets
  /\ ri' = ri + 1
  /\ UNCHANGED <<targets, fixed_vars, walk_vars, pc, error, results>>

\* variant: the root is not entered into has_checked_targets
seed_checked_empty(gn_name) == {}

\* line 215: has_checked_targets[self.gn_name] = self
seed_checked(gn_name) == {gn_name}

\* variant: a first visit is not recorded
mark_checked_forgets(checked, gn_name) == checked

\* line 235: has_checked_targets[main_target.gn_name] = main_target
mark_checked(checked, gn_name) == checked \cup {gn_name}

\* variant: the root is never added
root_never_source(self) == <<>>

\* lines 216-217: the root joins the source targets when it is useful
root_source_targets(self) ==
  IF is_useful_target(self) THEN <<self.gn_name>> ELSE <<>>

\* one more entry into the deps loop of gn_name (line 245 reached)
count_walk(counts, gn_name) ==
  IF gn_name \in DOMAIN counts
  THEN [counts EXCEPT ![gn_name] = @ + 1]
  ELSE counts @@ (gn_name :> 1)

\* a requested root that project.targets holds
at_root ==
  /\ pc = "loop" /\ ri <= Len(cmake_targets)
  /\ cmake_targets[ri] \in DOMAIN targets

\* "if cmake_target.is_only_sub_cmake == True"
only_sub_cmake(t) == t.raised = "none" /\ t.value.is_only_sub_cmake = TRUE

\* What stops gn_to_cmake before find_all_dependencies is entered: Target()
\* raising, or write_project's linkable test ("none" if nothing does).
root_exception(t) ==
  IF t.raised # "none" THEN t.raised
  ELSE IF t.value.cmake_type = None THEN "AttributeError"
  ELSE IF ~t.value.cmake_type.is_linkable THEN "Exception"
  ELSE "none"

\* gn_to_cmake: "if cmake_target.is_only_sub_cmake == True: continue"
skip_only_sub_cmake(t) ==
  /\ only_sub_cmake(t)
  /\ ri' = ri + 1
  /\ targets' = targets_after(t)
  /\ UNCHANGED <<fixed_vars, walk_vars, pc, error, results>>

gn_to_cmake_only_sub_cmake ==
  at_root /\ skip_only_sub_cmake(Target(cmake_targets[ri]))

\* Target(target_name, project) or write_project's linkable test raises
raise_at_root(t) ==
  /\ ~only_sub_cmake(t)
  /\ root_exception(t) # "none"
  /\ error' = root_exception(t)
  /\ pc' = "crashed"
  /\ targets' = targets_after(t)
  /\ UNCHANGED <<fixed_vars, walk_vars, ri, results>>

gn_to_cmake_raises ==
  at_root /\ raise_at_root(Target(cmake_targets[ri]))

\* write_project up to the first lines of find_all_dependencies (208-217)
enter_write_project(t) ==
  /\ root_exception(t) = "none"
  /\ nested' = Append(nested, [target |-> t.value.gn_name,
                               sub_cmake_target |-> t.value.sub_cmake_target,
                               j |-> 1])
  /\ start_target' = t.value.gn_name
  /\ all_deps_source_targets' = root_source_targets(t.value)
  /\ all_deps_binary_targets' = <<>>
  /\ has_checked_targets' = seed_checked(t.value.gn_name)
  /\ dep_actions' = (t.value.gn_name :> {})
  /\ walks' = (t.value.gn_name :> 1)
  /\ stack' = <<[target |-> t.value.gn_name, i |-> 1]>>
  /\ dep_target' = NoDep
  /\ deps_packages' = t.value.deps_packages
  /\ link_modules' = t.value.link_modules
  /\ pc' = "walk"
  /\ targets' = targets_after(t)
  /\ UNCHANGED <<given_vars, ri, error, results>>

\* gn_to_cmake: "r |= write_project(project, cmake_target)"
enter_find_all_dependencies(t) == ~only_sub_cmake(t) /\ enter_write_project(t)

find_all_dependencies ==
  at_root /\ enter_find_all_dependencies(Target(cmake_targets[ri]))

\* the frame whose "for dep in ....deps" loop is running, and its next dep
top == stack[Len(stack)]

deps_of_top == targets[top.target].deps

has_dep == pc = "walk" /\ top.i <= Len(deps_of_top)

dep == deps_of_top[top.i]

\* variant: only the deps loop of the root records a script dep
with_script_of_root_only(t) ==
  IF t.gn_type \in SCRIPT_TARGETS /\ top.target = start_target
  THEN [dep_actions EXCEPT ![top.target] = @ \cup {t.cmake_name}]
  ELSE dep_actions

\* lines 220-221 and 247-248: a script dep is added to the looping object's set
with_script(t) ==
  IF t.gn_type \in SCRIPT_TARGETS
  THEN [dep_actions EXCEPT ![top.target] = @ \cup {t.cmake_name}]
  ELSE dep_actions

advance == [stack EXCEPT ![Len(stack)].i = @ + 1]

\* variant: a dep that cannot be built is passed over
skip_at_dep(t) ==
  /\ t.raised # "none"
  /\ stack' = advance
  /\ targets' = targets_after(t)
  /\ UNCHANGED <<fixed_vars, package_vars, ri, pc, error, results, start_target, walks,
                 all_deps_source_targets, all_deps_binary_targets,
                 has_checked_targets, dep_actions, dep_target>>

\* "dep_target = Target(dep, project)" raises
raise_at_dep(t) ==
  /\ t.raised # "none"
  /\ error' = t.raised
  /\ pc' = "crashed"
  /\ targets' = targets_after(t)
  /\ UNCHANGED <<fixed_vars, walk_vars, ri, results>>

dep_target_raises == has_dep /\ raise_at_dep(Target(dep))

\* variant: the revisiting object keeps its own empty set
taken_fresh_set(checked_actions, gn_name) == {}

\* what a revisiting object takes over: line 232
taken_dep_actions(checked_actions, gn_name) == checked_actions[gn_name]

\* lines 231-233, then the caller's union (223 / 250)
revisit_dep(t) ==
  /\ t.raised = "none"
  /\ t.value.gn_name \in has_checked_targets
  /\ dep_target' =
       [gn_name |-> t.value.gn_name,
        dep_actions |-> taken_dep_actions(with_script(t.value), t.value.gn_name)]
  /\ dep_actions' =
       [with_script(t.value) EXCEPT ![top.target] =
          @ \cup taken_dep_actions(with_script(t.value), t.value.gn_name)]
  /\ stack' = advance
  /\ targets' = targets_after(t)
  /\ UNCHANGED <<fixed_vars, package_vars, ri, pc, error, results, start_target, walks,
                 all_deps_source_targets, all_deps_binary_targets,
                 has_checked_targets>>

revisit == has_dep /\ revisit_dep(Target(dep))

\* line 235, then line 238 raises AttributeError: cmake_type is None
raise_at_barrier_test(t) ==
  /\ t.raised = "none"
  /\ t.value.gn_name \notin has_checked_targets
  /\ barrier_test_raises(t.value)
  /\ has_checked_targets' = mark_checked(has_checked_targets, t.value.gn_name)
  /\ dep_actions' = with_script(t.value) @@ (t.value.gn_name :> {})
  /\ walks' = walks @@ (t.value.gn_name :> 0)
  /\ dep_target' = [gn_name |-> t.value.gn_name, dep_actions |-> {}]
  /\ error' = "AttributeError"
  /\ pc' = "crashed"
  /\ targets' = targets_after(t)
  /\ UNCHANGED <<fixed_vars, package_vars, ri, results, start_target, stack,
                 all_deps_source_targets, all_deps_binary_targets>>

barrier_test_raise == has_dep /\ raise_at_barrier_test(Target(dep))

\* variant: the deps loop of a barrier is entered as well
add_barrier_and_look_up(t) ==
  /\ t.raised = "none"
  /\ t.value.gn_name \notin has_checked_targets
  /\ ~barrier_test_raises(t.value)
  /\ is_barrier(t.value)
  /\ has_checked_targets' = mark_checked(has_checked_targets, t.value.gn_name)
  /\ all_deps_binary_targets' = Append(all_deps_binary_targets, t.value.gn_name)
  /\ dep_actions' = with_script(t.value) @@ (t.value.gn_name :> {})
  /\ walks' = walks @@ (t.value.gn_name :> 0)
  /\ dep_target' = [gn_name |-> t.value.gn_name, dep_actions |-> {}]
  /\ stack' = Append(stack, [target |-> t.value.gn_name, i |-> 1])
  /\ targets' = targets_after(t)
  /\ UNCHANGED <<fixed_vars, package_vars, ri, pc, error, results, start_target,
                 all_deps_source_targets>>

\* lines 235-240, then the caller's union
add_barrier(t) ==
  /\ t.raised = "none"
  /\ t.value.gn_name \notin has_checked_targets
  /\ ~barrier_test_raises(t.value)
  /\ is_barrier(t.value)
  /\ has_checked_targets' = mark_checked(has_checked_targets, t.value.gn_name)
  /\ all_deps_binary_targets' = Append(all_deps_binary_targets, t.value.gn_name)
  /\ dep_actions' = with_script(t.value) @@ (t.value.gn_name :> {})
  /\ walks' = walks @@ (t.value.gn_name :> 0)
  /\ dep_target' = [gn_name |-> t.value.gn_name, dep_actions |-> {}]
  /\ stack' = advance
  /\ targets' = targets_after(t)
  /\ UNCHANGED <<fixed_vars, package_vars, ri, pc, error, results, start_target,
                 all_deps_source_targets>>

barrier == has_dep /\ add_barrier(Target(dep))

\* variant: the deps loop of a node that is not useful is not entered
expand_dep_useful_only(t) ==
  /\ t.raised = "none"
  /\ t.value.gn_name \notin has_checked_targets
  /\ ~barrier_test_raises(t.value)
  /\ ~is_barrier(t.value)
  /\ has_checked_targets' = mark_checked(has_checked_targets, t.value.gn_name)
  /\ all_deps_source_targets' =
       IF is_useful_target(t.value)
       THEN Append(all_deps_source_targets, t.value.gn_name)
       ELSE all_deps_source_targets
  /\ deps_packages' =
       IF is_useful_target(t.value)
       THEN add_deps_packages(deps_packages, t.value)
       ELSE deps_packages
  /\ link_modules' =
       IF is_useful_target(t.value)
       THEN add_link_modules(link_modules, t.value)
       ELSE link_modules
  /\ dep_actions' = with_script(t.value) @@ (t.value.gn_name :> {})
  /\ walks' = count_walk(walks, t.value.gn_name)
  /\ dep_target' = [gn_name |-> t.value.gn_name, dep_actions |-> {}]
  /\ stack' = IF is_useful_target(t.value)
            THEN Append(stack, [target |-> t.value.gn_name, i |-> 1])
            ELSE advance
  /\ targets' = targets_after(t)
  /\ UNCHANGED <<fixed_vars, ri, pc, error, results, start_target,
                 all_deps_binary_targets>>

\* lines 235-245: a first visit of a non-barrier enters its deps loop
expand_dep(t) ==
  /\ t.raised = "none"
  /\ t.value.gn_name \notin has_checked_targets
  /\ ~barrier_test_raises(t.value)
  /\ ~is_barrier(t.value)
  /\ has_checked_targets' = mark_checked(has_checked_targets, t.value.gn_name)
  /\ all_deps_source_targets' =
       IF is_useful_target(t.value)
       THEN Append(all_deps_source_targets, t.value.gn_name)
       ELSE all_deps_source_targets
  /\ deps_packages' =
       IF is_useful_target(t.value)
       THEN add_deps_packages(deps_packages, t.value)
       ELSE deps_packages
  /\ link_modules' =
       IF is_useful_target(t.value)
       THEN add_link_modules(link_modules, t.value)
       ELSE link_modules
  /\ dep_actions' = with_script(t.value) @@ (t.value.gn_name :> {})
  /\ walks' = count_walk(walks, t.value.gn_name)
  /\ dep_target' = [gn_name |-> t.value.gn_name, dep_actions |-> {}]
  /\ stack' = Append(stack, [target |-> t.value.gn_name, i |-> 1])
  /\ targets' = targets_after(t)
  /\ UNCHANGED <<fixed_vars, ri, pc, error, results, start_target,
                 all_deps_binary_targets>>

expand == has_dep /\ expand_dep(Target(dep))

\* line 253 "return 0" of a nested call, then the caller's union (223 / 250)
return_to_caller ==
  /\ pc = "walk" /\ ~has_dep
  /\ Len(stack) > 1
  /\ LET caller == stack[Len(stack) - 1].target
     IN  /\ dep_actions' =
              [dep_actions EXCEPT ![caller] = @ \cup dep_actions[top.target]]
         /\ dep_target' =
              [gn_name |-> top.target, dep_actions |-> dep_actions[top.target]]
         /\ stack' = [SubSeq(stack, 1, Len(stack) - 1)
                        EXCEPT ![Len(stack) - 1].i = @ + 1]
  /\ UNCHANGED <<targets, fixed_vars, package_vars, ri, pc, error, results, start_target, walks,
                 all_deps_source_targets, all_deps_binary_targets,
                 has_checked_targets>>

\* the write_project call whose body is running
top_nested == nested[Len(nested)]

\* the calls left when the innermost write_project returns: the for loop of
\* its caller moves on
nested_after_return ==
  IF Len(nested) = 1 THEN <<>>
  ELSE [SubSeq(nested, 1, Len(nested) - 1) EXCEPT ![Len(nested) - 1].j = @ + 1]

\* line 224: find_all_dependencies returns and write_project emits the root
write_project ==
  /\ pc = "walk" /\ ~has_dep
  /\ Len(stack) = 1
  /\ results' = Append(results,
       [root |-> start_target,
        sourceUnits |-> all_deps_source_targets,
        barrierUnits |-> all_deps_binary_targets,
        scriptActions |-> dep_actions[start_target],
        dep_actions |-> dep_actions,
        packageRequirements |-> deps_packages,
        linkedModules |-> link_modules,
        visited |-> has_checked_targets,
        walks |-> walks])
  /\ start_target' = NoTarget
  /\ all_deps_source_targets' = <<>>
  /\ all_deps_binary_targets' = <<>>
  /\ has_checked_targets' = {}
  /\ dep_actions' = <<>>
  /\ stack' = <<>>
  /\ dep_target' = NoDep
  /\ walks' = <<>>
  /\ deps_packages' = <<>>
  /\ link_modules' = {}
  /\ IF top_nested.sub_cmake_target = <<>>
     THEN /\ nested' = nested_after_return
          /\ ri' = IF Len(nested) = 1 THEN ri + 1 ELSE ri
          /\ pc' = IF Len(nested) = 1 THEN "loop" ELSE "nest"
     ELSE /\ nested' = nested
          /\ ri' = ri
          /\ pc' = "nest"
  /\ UNCHANGED <<targets, given_vars, error>>

\* write_project's "for sub in start_target.sub_cmake_target" has a sub ahead
in_nest_loop ==
  /\ pc = "nest"
  /\ top_nested.j <= Len(top_nested.sub_cmake_target)

sub == top_nested.sub_cmake_target[top_nested.j]

\* lines 771-772: Target(sub, project, start_target) raises, or the nested
\* write_project raises at its linkable test
raise_at_sub(t) ==
  /\ root_exception(t) # "none"
  /\ error' = root_exception(t)
  /\ pc' = "crashed"
  /\ targets' = targets_after(t)
  /\ UNCHANGED <<fixed_vars, walk_vars, ri, results>>

sub_target_raises ==
  in_nest_loop /\ Len(nested) < MaxNesting /\ raise_at_sub(Target(sub))

\* line 772: write_project(project, sub_target) enters its walk
write_sub_project ==
  in_nest_loop /\ Len(nested) < MaxNesting /\ enter_write_project(Target(sub))

\* line 772 at the interpreter's recursion limit
write_project_RecursionError ==
  /\ in_nest_loop
  /\ Len(nested) >= MaxNesting
  /\ error' = "RecursionError"
  /\ pc' = "crashed"
  /\ UNCHANGED <<targets, fixed_vars, walk_vars, ri, results>>

\* line 773: the for loop is exhausted, "return r"
write_project_returns ==
  /\ pc = "nest"
  /\ top_nested.j > Len(top_nested.sub_cmake_target)
  /\ nested' = nested_after_return
  /\ ri' = IF Len(nested) = 1 THEN ri + 1 ELSE ri
  /\ pc' = IF Len(nested) = 1 THEN "loop" ELSE "nest"
  /\ UNCHANGED <<targets, given_vars, walk_vars, error, results>>

\* gn_to_cmake: the for loop is exhausted, "return r"
gn_to_cmake_returns ==
  /\ pc = "loop" /\ ri > Len(cmake_targets)
  /\ pc' = "done"
  /\ UNCHANGED <<targets, fixed_vars, walk_vars, ri, error, results>>

Next ==
  \/ gn_to_cmake_not_existed
  \/ gn_to_cmake_only_sub_cmake
  \/ gn_to_cmake_raises
  \/ find_all_dependencies
  \/ dep_target_raises
  \/ revisit
  \/ barrier_test_raise
  \/ barrier
  \/ expand
  \/ return_to_caller
  \/ write_project
  \/ sub_target_raises
  \/ write_sub_project
  \/ write_project_RecursionError
  \/ write_project_returns
  \/ gn_to_cmake_returns

Spec == Init /\ [][Next]_vars

------------------------------------------------------------------------------
(* Target.get_cmake_target_name on its own: it reads self.gn_name and       *)
(* nothing else, so that a run is a list of gn names and the outcomes of    *)
(* the calls on them.                                                       *)

\* gn_to_cmake is not running
CmakeIdle ==
  /\ targets = <<>> /\ cmake_targets = <<>> /\ ri = 1
  /\ start_target = NoTarget
  /\ all_deps_source_targets = <<>> /\ all_deps_binary_targets = <<>>
  /\ has_checked_targets = {} /\ dep_actions = <<>>
  /\ stack = <<>> /\ dep_target = NoDep
  /\ walks = <<>> /\ results = <<>>
  /\ deps_packages = <<>> /\ link_modules = {}
  /\ nested = <<>>

cmake_vars == <<targets, cmake_targets, ri, walk_vars, results, nested>>

\* Labels of the shape //location[:name][(toolchain)]; an optional part is
\* a list of no or of one string.
Locations ==
  {<<>>, <<"a">>, <<"a", "/", "b">>, <<"a", "b", "/", "b">>,
   <<"f", "o", "o", "/", "b", "a", "r">>}

Names == {<<>>, <<<<"c">>>>, <<<<"b">>>>, <<<<"b", "a", "r">>>>}

toolchain_x == <<"/", "/", "t", "o", "o", "l", "c", "h", "a", "i", "n", ":", "x">>

Toolchains == {<<>>, <<toolchain_x>>, <<<<"t">>>>, <<<<>>>>}

WithToolchain(gn_name, toolchain) == gn_name \o <<"(">> \o toolchain \o <<")">>

Label(location, name, toolchain) ==
  LET plain == <<"/", "/">> \o location
                 \o (IF name = <<>> THEN <<>> ELSE <<":">> \o name[1])
  IN  IF toolchain = <<>> THEN plain ELSE WithToolchain(plain, toolchain[1])

Labels ==
  {Label(l, n, t) : l \in Locations, n \in Names, t \in Toolchains}

NamingInit ==
  /\ gn_names \in {<<a, b>> : a \in Labels, b \in Labels}
  /\ identifiers = <<>>
  /\ pc = "naming"
  /\ error = "none"
  /\ CmakeIdle
  /\ PodspecIdle

\* one call: self.cmake_name = self.get_cmake_target_name()
derive_cmake_name ==
  /\ pc = "naming"
  /\ Len(identifiers) < Len(gn_names)
  /\ identifiers' =
       Append(identifiers, get_cmake_target_name(gn_names[Len(identifiers) + 1]))
  /\ UNCHANGED <<gn_names, pc, error, cmake_vars, podspec_vars>>

NamingNext == derive_cmake_name

NamingSpec == NamingInit /\ [][NamingNext]_vars

------------------------------------------------------------------------------
(* util/gn_to_podspec_script.py: the SubspecTarget view and its flatten.    *)
(* Of the attributes of a SubspecTarget the model carries source_files and  *)
(* frameworks (lists), header_dir and header_mappings_dir (strings) and     *)
(* dependency_versions (a dict).  The other list attributes, the list of    *)
(* dependency names among them, merge as frameworks does.                   *)

\* the characters the model's strings are made of, in code point order
code_points ==
  <<".", "/", "0", "1", "2", "3", "4", "5", "6", "7", "8", "9", ":",
    "A", "B", "C", "D", "E", "F", "G", "H", "I", "J", "K", "L", "M",
    "N", "O", "P", "Q", "R", "S", "T", "U", "V", "W", "X", "Y", "Z", "_",
    "a", "b", "c", "d", "e", "f", "g", "h", "i", "j", "k", "l", "m",
    "n", "o", "p", "q", "r", "s", "t", "u", "v", "w", "x", "y", "z">>

ord(c) == CHOOSE k \in 1..Len(code_points) : code_points[k] = c

RECURSIVE str_le(_, _)
\* s <= t for two Python strings
str_le(s, t) ==
  IF s = <<>> THEN TRUE
  ELSE IF t = <<>> THEN FALSE
  ELSE IF s[1] = t[1] THEN str_le(Tail(s), Tail(t))
  ELSE ord(s[1]) < ord(t[1])

RECURSIVE insort(_, _)
insort(x, q) ==
  IF q = <<>> THEN <<x>>
  ELSE IF str_le(x, q[1]) THEN <<x>> \o q
  ELSE <<q[1]>> \o insort(x, Tail(q))

RECURSIVE sorted(_)
\* sorted(q) for a list of strings
sorted(q) == IF q = <<>> THEN <<>> ELSE insort(q[1], sorted(Tail(q)))

RECURSIVE sorted_set(_)
\* sorted(S) for a set of strings
sorted_set(S) ==
  IF S = {} THEN <<>>
  ELSE LET least == CHOOSE x \in S : \A y \in S : str_le(x, y)
       IN  <<least>> \o sorted_set(S \ {least})

secondary_path ==
  <<"b", "u", "i", "l", "d", "/", "s", "e", "c", "o", "n", "d", "a", "r", "y", "/">>

\* the body of the for loop of format_root_path
format_one_path(path) ==
  LET stripped == Replace(path, <<"/", "/">>, <<>>)
  IN  IF StartsWith(stripped, secondary_path)
      THEN Replace(stripped, secondary_path, <<>>)
      ELSE stripped

format_root_path(paths) ==
  IF Len(paths) <= 0 THEN paths
  ELSE sorted([k \in 1..Len(paths) |-> format_one_path(paths[k])])

RECURSIVE int_of(_, _)
\* int(s) for a string of digits, read from the left onto acc
int_of(s, acc) ==
  IF s = <<>> THEN acc ELSE int_of(Tail(s), acc * 10 + (ord(s[1]) - ord("0")))

\* string_to_int: the digits of version_str joined and read as one number;
\* ValueError from int('') when there is no digit
string_to_int(version_str) ==
  LET version_int == SelectSeq(version_str, LAMBDA c : c \in digits)
  IN  IF version_int = <<>> THEN Raised("ValueError")
      ELSE Returned(int_of(version_int, 0))

RECURSIVE parse_dependency_from(_, _, _)
\* the for loop of parse_dependency from its k-th entry on; an entry is a
\* name alone (version <<>>) or a list of a name and a version (<<version>>)
parse_dependency_from(dependencies, k, dependency_versions) ==
  IF k > Len(dependencies) THEN Returned(dependency_versions)
  ELSE IF dependencies[k].version = <<>>
  THEN parse_dependency_from(dependencies, k + 1, dependency_versions)
  ELSE IF dependencies[k].name \notin DOMAIN dependency_versions
  THEN parse_dependency_from(
         dependencies, k + 1,
         Put(dependency_versions, dependencies[k].name, dependencies[k].version[1]))
  ELSE IF string_to_int(dependencies[k].version[1]).raised # "none"
  THEN string_to_int(dependencies[k].version[1])
  ELSE IF string_to_int(dependency_versions[dependencies[k].name]).raised # "none"
  THEN string_to_int(dependency_versions[dependencies[k].name])
  ELSE parse_dependency_from(
         dependencies, k + 1,
         IF string_to_int(dependencies[k].version[1]).value
              > string_to_int(dependency_versions[dependencies[k].name]).value
         THEN Put(dependency_versions, dependencies[k].name,
                  dependencies[k].version[1])
         ELSE dependency_versions)

\* the dependency_versions that parse_dependency returns
parse_dependency(dependencies) == parse_dependency_from(dependencies, 1, <<>>)

\* variant: a non-empty attribute of self is left as it is
add_flatten_subspec_parm_keeps_own(self_var, flatten_value) ==
  IF Len(self_var) <= 0 THEN flatten_value ELSE self_var

\* add_flatten_subspec_parm: the new value of the attribute self_var
add_flatten_subspec_parm(self_var, flatten_value) ==
  IF Len(flatten_value) <= 0 THEN self_var
  ELSE IF Len(self_var) <= 0 THEN flatten_value
  ELSE sorted_set({flatten_value[k] : k \in 1..Len(flatten_value)}
                    \cup {self_var[k] : k \in 1..Len(self_var)})

\* variant: a non-empty flatten_value always takes the place
para_competition_last_wins(self_var, flatten_value) ==
  IF flatten_value # "" THEN flatten_value ELSE self_var

\* para_competition: the new value of the attribute self_var
para_competition(self_var, flatten_value) ==
  IF self_var = "" THEN flatten_value ELSE self_var

\* d.get(key, 1000000) of the dependency_versions merge: the version string
\* or the default, which is an int
get_version(d, key) ==
  IF key \in DOMAIN d THEN [is_int |-> FALSE, text |-> d[key]]
  ELSE [is_int |-> TRUE, text |-> <<>>]

\* lambda v1, v2: v1 if self.string_to_int(v1) > self.string_to_int(v2) else v2
\* (re.findall raises TypeError on the int default)
compare_versions(v1, v2) ==
  IF v1.is_int THEN Raised("TypeError")
  ELSE IF string_to_int(v1.text).raised # "none" THEN string_to_int(v1.text)
  ELSE IF v2.is_int THEN Raised("TypeError")
  ELSE IF string_to_int(v2.text).raised # "none" THEN string_to_int(v2.text)
  ELSE IF string_to_int(v1.text).value > string_to_int(v2.text).value
  THEN Returned(v1.text)
  ELSE Returned(v2.text)

\* lines 290-295 for dependency_versions, both dicts being non-empty
merged_dict(var, flatten_value) ==
  LET keys == DOMAIN var \cup DOMAIN flatten_value
      merged == [key \in keys |->
                   compare_versions(get_version(var, key),
                                    get_version(flatten_value, key))]
  IN  IF \E key \in keys : merged[key].raised # "none"
      THEN Raised(merged[CHOOSE key \in keys : merged[key].raised # "none"].raised)
      ELSE Returned([key \in keys |-> merged[key].value])

\* add_dict_params for dependency_versions: the new value of the attribute
add_dict_params(var, flatten_value) ==
  IF DOMAIN flatten_value = {} THEN Returned(var)
  ELSE IF DOMAIN var = {} THEN Returned(flatten_value)
  ELSE merged_dict(var, flatten_value)

\* SubspecTarget.__init__ up to line 161: the attributes read from the
\* properties, or the exception parse_dependency raises
own_attributes(gn_name, properties, versions) ==
  IF versions.raised # "none" THEN versions
  ELSE Returned(
    [gn_name |-> gn_name,
     source_files |-> format_root_path(properties.sources),
     header_dir |-> get_first_var(properties.metadata.header_dir, ""),
     header_mappings_dir |->
       get_first_var(properties.metadata.header_mappings_dir, ""),
     frameworks |-> properties.metadata.frameworks,
     dependency_versions |-> versions.value])

SubspecTarget_attributes(gn_name) ==
  own_attributes(gn_name, subspecs[gn_name],
                 parse_dependency(subspecs[gn_name].metadata.dependency))

RECURSIVE check_flatten_deps(_)
\* the for loop of get_flatten_deps over the sorted ids: what it raises
check_flatten_deps(flatten_deps) ==
  IF flatten_deps = <<>> THEN "none"
  ELSE IF flatten_deps[1] \notin DOMAIN subspecs THEN "KeyError"
  ELSE IF ~get_first_var(subspecs[flatten_deps[1]].metadata.is_subspec_target,
                         FALSE)
  THEN "Exception"
  ELSE check_flatten_deps(Tail(flatten_deps))

\* variant: an id that is no subspec target is passed over
get_flatten_deps_lenient(flatten_deps) ==
  IF \E k \in 1..Len(flatten_deps) : flatten_deps[k] \notin DOMAIN subspecs
  THEN Raised("KeyError")
  ELSE Returned({flatten_deps[k] : k \in 1..Len(flatten_deps)}
                  \cap {n \in DOMAIN subspecs :
                          get_first_var(subspecs[n].metadata.is_subspec_target,
                                        FALSE)})

\* get_flatten_deps up to line 262: flatten_targets_set, or the exception
get_flatten_deps(flatten_deps) ==
  IF check_flatten_deps(sorted(flatten_deps)) # "none"
  THEN Raised(check_flatten_deps(sorted(flatten_deps)))
  ELSE Returned({flatten_deps[k] : k \in 1..Len(flatten_deps)})

\* the loop body of flatten_subspec_targets: self after flatten_sub is
\* folded in, versions being what add_dict_params came to
flattened_with(self, flatten_sub, versions) ==
  [gn_name |-> self.gn_name,
   source_files |->
     add_flatten_subspec_parm(self.source_files, flatten_sub.source_files),
   header_dir |-> para_competition(self.header_dir, flatten_sub.header_dir),
   header_mappings_dir |->
     para_competition(self.header_mappings_dir, flatten_sub.header_mappings_dir),
   frameworks |->
     add_flatten_subspec_parm(self.frameworks, flatten_sub.frameworks),
   dependency_versions |-> versions]

\* The properties of a podspec node.  is_subspec_target, header_dir and
\* header_mappings_dir are metadata lists of no or of one value.
Subspec(is_subspec_target, flatten_deps, sources, frameworks, header_dir, header_mappings_dir, dependency) ==
  [sources |-> sources,
   metadata |-> [is_subspec_target |-> is_subspec_target,
                 flatten_deps |-> flatten_deps,
                 frameworks |-> frameworks,
                 header_dir |-> header_dir,
                 header_mappings_dir |-> header_mappings_dir,
                 dependency |-> dependency]]

\* a node that carries flatten_deps and one framework only
Plain(is_subspec_target, flatten_deps, framework) ==
  Subspec(is_subspec_target, flatten_deps, <<>>, framework, <<>>, <<>>, <<>>)

fw_U == <<"U">>

fw_V == <<"V">>

fw_W == <<"W">>

\* graphs of flatten_deps over A, B, C with ids that are absent, nodes that
\* are no subspec targets, and cycles
FlattenShapes ==
  {[n \in {A, B, C} |->
      CASE n = A -> Plain(<<TRUE>>, da, <<fw_U>>)
        [] n = B -> Plain(fb, db, <<fw_V>>)
        [] n = C -> Plain(fc, dc, <<>>)] :
     da \in DepSeqs({A, B, C, X}, 2),
     db \in {<<>>, <<A>>, <<C>>},
     dc \in {<<>>, <<B>>},
     fb \in {<<TRUE>>, <<FALSE>>},
     fc \in {<<TRUE>>, <<>>}}

FlattenGraphs == {<<B, C>>, <<B>>}

\* A flattens B and C, or A flattens B which flattens C; the frameworks and
\* the header_dir of each vary
FlattenFields ==
  {[n \in {A, B, C} |->
      CASE n = A -> Subspec(<<TRUE>>, da, <<>>, fa, ha, <<>>, <<>>)
        [] n = B -> Subspec(<<TRUE>>, IF da = <<B>> THEN <<C>> ELSE <<>>,
                            <<>>, fb, hb, <<>>, <<>>)
        [] n = C -> Subspec(<<TRUE>>, <<>>, <<>>, fc, hc, <<>>, <<>>)] :
     da \in FlattenGraphs,
     fa \in {<<>>, <<fw_U>>, <<fw_U, fw_U>>},
     fb \in {<<>>, <<fw_V, fw_U>>, <<fw_V, fw_V>>},
     fc \in {<<>>, <<fw_W>>},
     ha \in {<<>>, <<"a">>},
     hb \in {<<>>, <<"b">>},
     hc \in {<<>>, <<"c">>}}

Versioned(name, version) == [name |-> name, version |-> <<version>>]

Unversioned(name) == [name |-> name, version |-> <<>>]

v_1_2_0 == <<"1", ".", "2", ".", "0">>

v_1_10_0 == <<"1", ".", "1", "0", ".", "0">>

v_1_10 == <<"1", ".", "1", "0">>

v_2_0 == <<"2", ".", "0">>

v_1_0 == <<"1", ".", "0">>

v_latest == <<"l", "a", "t", "e", "s", "t">>

\* A flattens B and C; the dependency lists of each vary
FlattenVersions ==
  {[n \in {A, B, C} |->
      CASE n = A -> Subspec(<<TRUE>>, <<B, C>>, <<>>, <<>>, <<>>, <<>>, va)
        [] n = B -> Subspec(<<TRUE>>, <<>>, <<>>, <<>>, <<>>, <<>>, vb)
        [] n = C -> Subspec(<<TRUE>>, <<>>, <<>>, <<>>, <<>>, <<>>, vc)] :
     va \in {<<>>, <<Versioned("Bar", v_1_2_0)>>, <<Versioned("Bar", v_2_0)>>},
     vb \in {<<>>, <<Versioned("Bar", v_1_10_0)>>, <<Versioned("Bar", v_1_10)>>,
             <<Versioned("Baz", v_1_0)>>, <<Unversioned("Qux")>>,
             <<Versioned("Bar", v_2_0), Versioned("Bar", v_1_10)>>,
             <<Versioned("Bar", v_1_0), Versioned("Bar", v_latest)>>},
     vc \in {<<>>, <<Versioned("Bar", v_1_2_0)>>, <<Versioned("Bar", v_1_10)>>}}

src_x == <<"x">>

src_root_x == <<"/", "/", "x">>

src_root_y == <<"/", "/", "y">>

src_secondary_y == secondary_path \o <<"y">>

\* A flattens B; the sources and the header_mappings_dir of each vary
FlattenSources ==
  {[n \in {A, B} |->
      CASE n = A -> Subspec(<<TRUE>>, <<B>>, sa, <<>>, <<>>, ma, <<>>)
        [] n = B -> Subspec(<<TRUE>>, <<>>, sb, <<>>, <<>>, mb, <<>>)] :
     sa \in {<<>>, <<src_root_x>>, <<src_root_x, src_x>>,
             <<src_secondary_y, src_root_x>>},
     sb \in {<<>>, <<src_x, src_root_y>>},
     ma \in {<<>>, <<"ma">>},
     mb \in {<<>>, <<"mb">>}}

SubspecProjects ==
  FlattenShapes \cup FlattenFields \cup FlattenVersions \cup FlattenSources

\* the depth of nested SubspecTarget calls at which the interpreter raises
\* RecursionError
MaxDepth == 4

\* a SubspecTarget whose __init__ has been called and has set nothing yet
Called(gn_name) ==
  [gn_name |-> gn_name, phase |-> "called",
   self |-> [gn_name |-> gn_name, source_files |-> <<>>, header_dir |-> "",
             header_mappings_dir |-> "", frameworks |-> <<>>,
             dependency_versions |-> <<>>],
   pending |-> {}]

\* SubspecTarget(root, project) is called on a project; the root is A, or
\* an id the project does not have
FlattenInit ==
  /\ subspecs \in SubspecProjects
  /\ frames \in {<<Called(A)>>, <<Called(X)>>}
  /\ flattened = <<>>
  /\ pc = "flatten"
  /\ error = "none"
  /\ CmakeIdle
  /\ NamingIdle

top_frame == frames[Len(frames)]

calling_frame == frames[Len(frames) - 1]

\* the frames with the top one replaced
with_top(frame) == [frames EXCEPT ![Len(frames)] = frame]

in_init ==
  /\ pc = "flatten" /\ frames # <<>> /\ top_frame.phase = "called"

in_known_init == in_init /\ top_frame.gn_name \in DOMAIN subspecs

flatten_deps_of_top ==
  get_flatten_deps(subspecs[top_frame.gn_name].metadata.flatten_deps)

flatten_crash(e) ==
  /\ pc' = "crashed"
  /\ error' = e
  /\ UNCHANGED <<subspecs, frames, flattened, cmake_vars, naming_vars>>

\* lines 136-137
raise_illegal_target ==
  /\ in_init
  /\ top_frame.gn_name \notin DOMAIN subspecs
  /\ flatten_crash("Exception")

\* line 154: parse_dependency raises
raise_in_parse_dependency ==
  /\ in_known_init
  /\ SubspecTarget_attributes(top_frame.gn_name).raised # "none"
  /\ flatten_crash(SubspecTarget_attributes(top_frame.gn_name).raised)

\* line 162: get_flatten_deps raises in its for loop
raise_in_get_flatten_deps ==
  /\ in_known_init
  /\ SubspecTarget_attributes(top_frame.gn_name).raised = "none"
  /\ flatten_deps_of_top.raised # "none"
  /\ flatten_crash(flatten_deps_of_top.raised)

\* __init__ with no flatten_deps: the object is what its properties say
init_without_flatten ==
  /\ in_known_init
  /\ SubspecTarget_attributes(top_frame.gn_name).raised = "none"
  /\ flatten_deps_of_top.raised = "none"
  /\ flatten_deps_of_top.value = {}
  /\ frames' = with_top([top_frame EXCEPT
                           !.phase = "built",
                           !.self = SubspecTarget_attributes(top_frame.gn_name).value])
  /\ UNCHANGED <<pc, error, subspecs, flattened, cmake_vars, naming_vars>>

\* __init__ reaches flatten_subspec_targets with a non-empty set
enter_flatten_subspec_targets ==
  /\ in_known_init
  /\ SubspecTarget_attributes(top_frame.gn_name).raised = "none"
  /\ flatten_deps_of_top.raised = "none"
  /\ flatten_deps_of_top.value # {}
  /\ frames' = with_top([top_frame EXCEPT
                           !.phase = "flattening",
                           !.self = SubspecTarget_attributes(top_frame.gn_name).value,
                           !.pending = flatten_deps_of_top.value])
  /\ UNCHANGED <<pc, error, subspecs, flattened, cmake_vars, naming_vars>>

in_flatten_loop ==
  /\ pc = "flatten" /\ frames # <<>> /\ top_frame.phase = "flattening"

\* line 299: SubspecTarget(subspec_target, self.project) for the next element
\* of the set, whichever the set's iteration yields
call_SubspecTarget ==
  /\ in_flatten_loop
  /\ Len(frames) < MaxDepth
  /\ \E subspec_target \in top_frame.pending :
       frames' = Append(frames, Called(subspec_target))
  /\ UNCHANGED <<pc, error, subspecs, flattened, cmake_vars, naming_vars>>

\* line 299 at the interpreter's recursion limit
raise_RecursionError ==
  /\ in_flatten_loop
  /\ Len(frames) >= MaxDepth
  /\ flatten_crash("RecursionError")

returned_to_loop ==
  /\ pc = "flatten" /\ Len(frames) > 1 /\ top_frame.phase = "built"

versions_after_flatten ==
  add_dict_params(calling_frame.self.dependency_versions,
                  top_frame.self.dependency_versions)

\* lines 300-311: add_dict_params raises in the comparison
raise_in_add_dict_params ==
  /\ returned_to_loop
  /\ versions_after_flatten.raised # "none"
  /\ flatten_crash(versions_after_flatten.raised)

\* one pass of the for loop of flatten_subspec_targets
fold_in(caller, flatten_sub, versions) ==
  [caller EXCEPT
     !.self = flattened_with(caller.self, flatten_sub.self, versions),
     !.pending = caller.pending \ {flatten_sub.gn_name},
     !.phase = IF caller.pending \ {flatten_sub.gn_name} = {}
               THEN "built" ELSE "flattening"]

\* lines 300-311: flatten_sub is folded into self
flatten_one ==
  /\ returned_to_loop
  /\ versions_after_flatten.raised = "none"
  /\ frames' = SubSeq(frames, 1, Len(frames) - 2)
                 \o <<fold_in(calling_frame, top_frame, versions_after_flatten.value)>>
  /\ UNCHANGED <<pc, error, subspecs, flattened, cmake_vars, naming_vars>>

\* the outermost SubspecTarget(...) returns
SubspecTarget_returns ==
  /\ pc = "flatten" /\ Len(frames) = 1 /\ top_frame.phase = "built"
  /\ flattened' = <<top_frame.self>>
  /\ frames' = <<>>
  /\ pc' = "done"
  /\ UNCHANGED <<error, subspecs, cmake_vars, naming_vars>>

FlattenNext ==
  \/ raise_illegal_target
  \/ raise_in_parse_dependency
  \/ raise_in_get_flatten_deps
  \/ init_without_flatten
  \/ enter_flatten_subspec_targets
  \/ call_SubspecTarget
  \/ raise_RecursionError
  \/ raise_in_add_dict_params
  \/ flatten_one
  \/ SubspecTarget_returns

FlattenSpec == FlattenInit /\ [][FlattenNext]_vars

------------------------------------------------------------------------------
(* Vocabulary of the properties, stated on the graph and not on the walk.   *)

Range(q) == {q[k] : k \in 1..Len(q)}

Count(q, x) == Cardinality({k \in 1..Len(q) : q[k] = x})

DepsOf(n) == Range(targets[n].deps)

Flagged(n) ==
  /\ targets[n].metadata.is_cmake_target # <<>>
  /\ targets[n].metadata.is_cmake_target[1] = TRUE

BarrierKinds == {"executable", "shared_library", "loadable_module"}

CheckableKinds == {"executable", "loadable_module", "shared_library",
                   "static_library", "source_set", "group"}

RecognisedKinds == CheckableKinds \cup
  {"unknown", "copy", "action", "action_foreach", "bundle_data", "create_bundle"}

BarrierNode(n) == Flagged(n) \/ targets[n].type \in BarrierKinds

HeaderFile(f) ==
  \/ Len(f) >= 2 /\ SubSeq(f, Len(f) - 1, Len(f)) = <<".", "h">>
  \/ Len(f) >= 4 /\ SubSeq(f, Len(f) - 3, Len(f)) = <<".", "h", "p", "p">>

UsefulNode(n) ==
  targets[n].type \in CheckableKinds =>
    \E f \in Range(targets[n].sources) : ~HeaderFile(f)

\* One round of following deps out of S: the deps of the root and of every
\* node of S that is no barrier.
Followed(S, root) ==
  S \cup {d \in DOMAIN targets :
            \E m \in S : (m = root \/ ~BarrierNode(m)) /\ d \in DepsOf(m)}

RECURSIVE FollowedFrom(_, _)
FollowedFrom(S, root) ==
  IF Followed(S, root) = S THEN S ELSE FollowedFrom(Followed(S, root), root)

\* The nodes reachable from root along deps paths through no barrier (the
\* root apart).
Walked(root) == FollowedFrom({root}, root)

\* n lies on a deps cycle all of whose nodes are non-barriers.
NonBarrierDeps(S) ==
  {d \in DOMAIN targets : ~BarrierNode(d) /\ \E m \in S : d \in DepsOf(m)}

RECURSIVE NonBarrierReach(_, _)
NonBarrierReach(S, k) ==
  IF k = 0 THEN S
  ELSE NonBarrierReach(S \cup NonBarrierDeps(S), k - 1)

OnNonBarrierCycle(n) ==
  /\ ~BarrierNode(n)
  /\ n \in NonBarrierReach(NonBarrierDeps({n}), Cardinality(DOMAIN targets))

\* every kind is recognised, every dep id exists, and the metadata of no
\* node makes Target.__init__ raise
WellFormed ==
  \A n \in DOMAIN targets :
    /\ targets[n].type \in RecognisedKinds
    /\ DepsOf(n) \subseteq DOMAIN targets
    /\ Target(n).raised = "none"

Resolved == {results[k] : k \in 1..Len(results)}

------------------------------------------------------------------------------
(* C1: in a graph whose dep ids all exist and whose kinds are all         *)
(* recognised, a started resolve returns, cycles among non-barrier nodes   *)
(* included: every step of the walk lowers a measure that is never         *)
(* negative, until find_all_dependencies returns.  No object is added to   *)
(* the source targets twice, and every useful node on such a cycle that    *)
(* the walk can reach is in sourceUnits exactly once.                      *)

RECURSIVE DepsLeft(_)
\* the deps that the loops of the first k frames have not come to yet
DepsLeft(k) ==
  IF k = 0 THEN 0
  ELSE DepsLeft(k - 1) + (Len(targets[stack[k].target].deps) + 1 - stack[k].i)

LongestDeps == Max({Len(targets[n].deps) : n \in DOMAIN targets})

Measure ==
  Cardinality(DOMAIN targets \ has_checked_targets) * (LongestDeps + 1)
    + DepsLeft(Len(stack))

C1_ExactlyOnce ==
  /\ \A n \in Range(all_deps_source_targets) :
       Count(all_deps_source_targets, n) = 1
  /\ \A r \in Resolved :
       WellFormed =>
         \A n \in Walked(r.root) :
           OnNonBarrierCycle(n) /\ UsefulNode(n) => Count(r.sourceUnits, n) = 1

C1_CycleSafe ==
  /\ [](pc = "walk" => Measure >= 0)
  /\ [][(pc = "walk" /\ WellFormed) =>
          \/ pc' \in {"loop", "nest"} /\ Len(results') = Len(results) + 1
          \/ pc' = "walk" /\ Measure' < Measure]_vars
  /\ []C1_ExactlyOnce

C1_Witness ==
  /\ pc = "done" /\ WellFormed
  /\ \E r \in Resolved :
       \E n, m \in Walked(r.root) :
         /\ n # m /\ n \in DepsOf(m) /\ m \in DepsOf(n)
         /\ OnNonBarrierCycle(n) /\ OnNonBarrierCycle(m)
         /\ UsefulNode(n) /\ UsefulNode(m)
         /\ Count(r.sourceUnits, n) = 1 /\ Count(r.sourceUnits, m) = 1

------------------------------------------------------------------------------
(* C2: within one resolve no name enters its deps loop more than once; a   *)
(* visit of a name already in has_checked_targets returns at once: no      *)
(* frame is pushed, nothing is added to the sets, and the visiting object  *)
(* holds the dep_actions of the object that was checked first.             *)

RevisitStep == has_dep /\ dep \in has_checked_targets

ReturnsAtOnce ==
  /\ Len(stack') = Len(stack)
  /\ stack'[Len(stack)] = [target |-> top.target, i |-> top.i + 1]
  /\ walks' = walks
  /\ all_deps_source_targets' = all_deps_source_targets
  /\ all_deps_binary_targets' = all_deps_binary_targets
  /\ dep_target'.gn_name = dep
  /\ dep_target'.dep_actions = dep_actions'[dep]

C2_ExpandedOnce ==
  /\ [](\A n \in DOMAIN walks : walks[n] <= 1)
  /\ [](\A r \in Resolved : \A n \in DOMAIN r.walks : r.walks[n] <= 1)
  /\ [][RevisitStep => ReturnsAtOnce]_vars

\* a revisit of a node whose deps loop is still running took over a
\* non-empty set
C2_Witness ==
  /\ pc = "walk"
  /\ dep_target.dep_actions # {}
  /\ \E k \in 1..Len(stack) : stack[k].target = dep_target.gn_name
  /\ walks[dep_target.gn_name] = 1

------------------------------------------------------------------------------
(* C3 as stated: no dep of a barrier that the walk put into barrierUnits   *)
(* is in sourceUnits or barrierUnits.                                       *)

Units(r) == Range(r.sourceUnits) \cup Range(r.barrierUnits)

C3_Original ==
  \A r \in Resolved :
    \A b \in Range(r.barrierUnits) :
      \A d \in DepsOf(b) : d \notin Units(r)

(* C3 amended: a dep of a barrier other than the root is in sourceUnits or *)
(* barrierUnits only if it is reachable from the root along a deps path    *)
(* through no barrier; what is reachable through barriers only is in       *)
(* neither set.                                                             *)

C3_BarrierOpacity ==
  \A r \in Resolved :
    \A b \in r.visited \ {r.root} :
      BarrierNode(b) =>
        \A d \in DepsOf(b) : d \in Units(r) => d \in Walked(r.root)

C3_Witness ==
  \E r \in Resolved :
    \E b \in Range(r.barrierUnits) :
      \E d \in DepsOf(b) :
        d \in DOMAIN targets /\ d \notin Walked(r.root) /\ d \notin Units(r)

------------------------------------------------------------------------------
(* C4: sourceUnits and barrierUnits never share a node, neither while the  *)
(* walk runs nor in what resolve returns.                                   *)

C4_Disjoint ==
  /\ Range(all_deps_source_targets) \cap Range(all_deps_binary_targets) = {}
  /\ \A r \in Resolved : Range(r.sourceUnits) \cap Range(r.barrierUnits) = {}

C4_Witness ==
  \E r \in Resolved :
    /\ Len(r.sourceUnits) >= 2
    /\ r.barrierUnits # <<>>
    /\ BarrierNode(r.root)

------------------------------------------------------------------------------
(* C5 as stated: every node the walk reached, the root included, is in     *)
(* barrierUnits iff it is flagged or of a barrier kind, and in sourceUnits *)
(* iff it is useful and no such barrier.                                    *)

Classified(r, n) ==
  /\ n \in Range(r.barrierUnits) <=> BarrierNode(n)
  /\ n \in Range(r.sourceUnits) <=> (UsefulNode(n) /\ ~BarrierNode(n))

C5_Original == \A r \in Resolved : \A n \in r.visited : Classified(r, n)

(* C5 amended: this holds of every reached node but the root; the root is  *)
(* never in barrierUnits and is in sourceUnits iff it is useful, whatever  *)
(* its kind and flag.                                                       *)

C5_Classification ==
  \A r \in Resolved :
    /\ \A n \in r.visited \ {r.root} : Classified(r, n)
    /\ r.root \notin Range(r.barrierUnits)
    /\ r.root \in Range(r.sourceUnits) <=> UsefulNode(r.root)

C5_Witness ==
  \E r \in Resolved :
    /\ BarrierNode(r.root) /\ r.root \in Range(r.sourceUnits)
    /\ \E n \in r.visited \ {r.root} : BarrierNode(n) /\ Flagged(n)
    /\ \E n \in r.visited \ {r.root} :
         ~BarrierNode(n) /\ n \in Range(r.sourceUnits)

------------------------------------------------------------------------------
(* C6: a root R of kind executable (with a source to compile) whose deps   *)
(* are S, a source_set with one (compilable) source and no deps, and E, a  *)
(* shared_library flagged is_cmake_target with no deps, resolves to        *)
(* sourceUnits = {R, S} and barrierUnits = {E}.                             *)

Scenario(R, S, E) ==
  /\ S # E /\ S # R /\ E # R
  /\ targets[R].type = "executable" /\ UsefulNode(R)
  /\ DepsOf(R) = {S, E} /\ Len(targets[R].deps) = 2
  /\ targets[S].type = "source_set" /\ ~Flagged(S)
  /\ Len(targets[S].sources) = 1 /\ UsefulNode(S)
  /\ targets[S].deps = <<>>
  /\ targets[E].type = "shared_library" /\ Flagged(E)
  /\ targets[E].deps = <<>>

------------------------------------------------------------------------------
(* C7: is_useful_target is true of a node of a checkable kind iff one of   *)
(* its sources ends in neither .h nor .hpp, and true of every node of      *)
(* another kind; a reached non-barrier node is in sourceUnits iff it is    *)
(* useful in this sense.                                                    *)

C7_Usefulness ==
  /\ \A n \in DOMAIN targets :
       Target(n).raised = "none" =>
         (is_useful_target(Target(n).value) <=> UsefulNode(n))
  /\ \A r \in Resolved :
       \A n \in r.visited \ Range(r.barrierUnits) :
         n \in Range(r.sourceUnits) <=> UsefulNode(n)

\* a static_library with headers only is left out, its depender is kept
C7_Witness ==
  \E r \in Resolved :
    \E n \in r.visited \ {r.root} :
      /\ targets[n].type = "static_library"
      /\ targets[n].sources # <<>>
      /\ n \notin Range(r.sourceUnits)
      /\ n \notin Range(r.barrierUnits)
      /\ r.root \in Range(r.sourceUnits)

------------------------------------------------------------------------------
(* C8: when the deps loop of the root or of a non-barrier node comes to an *)
(* id that project.targets does not hold, the run ends there with a        *)
(* KeyError (the lookup failure) and this resolve returns nothing.         *)

MeetsAbsentDep == has_dep /\ dep \notin DOMAIN targets

C8_UnknownTarget ==
  /\ [][MeetsAbsentDep =>
          pc' = "crashed" /\ error' = "KeyError" /\ results' = results]_vars
  /\ [][pc = "crashed" => pc' = "crashed" /\ results' = results]_vars

\* the absent id was met in the deps loop of a node below the root
C8_Witness ==
  /\ pc = "crashed" /\ error = "KeyError"
  /\ Len(stack) > 1
  /\ dep \notin DOMAIN targets

------------------------------------------------------------------------------
(* C9: a node of a kind outside the recognised set that the walk comes to  *)
(* never ends the run.                                                      *)

UnrecognisedKind(n) == targets[n].type \notin RecognisedKinds

C9_NeverFatal ==
  ~(/\ pc = "crashed"
    /\ stack # <<>>
    /\ top.i <= Len(targets[top.target].deps)
    /\ dep \in DOMAIN targets
    /\ UnrecognisedKind(dep))

------------------------------------------------------------------------------
(* C10: a failure inside the resolve of one root leaves every other        *)
(* requested root to be processed: the run never ends in a resolve before  *)
(* the last requested root.                                                 *)

C10_OtherRootsProcessed ==
  (pc = "crashed" /\ stack # <<>>) => ri >= Len(cmake_targets)

------------------------------------------------------------------------------
(* C11: when two or more of the nodes whose packages a resolve merged (the *)
(* root and the useful non-barrier nodes the walk came to) declare one     *)
(* package name, packageRequirements holds for it the union of all the     *)
(* search paths they declare and the OR of all the flags they declare.     *)
(* The expected entry is stated on the graph, so that it is the same for   *)
(* every order of the deps lists.                                          *)

PackagesOf(n) == targets[n].metadata.find_and_link_packages

DeclarationsOf(n, name) ==
  {k \in 1..Len(PackagesOf(n)) : PackagesOf(n)[k].name = name}

PackageNames ==
  UNION {{PackagesOf(n)[k].name : k \in 1..Len(PackagesOf(n))} :
           n \in DOMAIN targets}

\* the nodes whose packages the resolve of r.root merged
Merged(r) ==
  {r.root} \cup
    {n \in Walked(r.root) \ {r.root} : ~BarrierNode(n) /\ UsefulNode(n)}

DeclaredPaths(n, k) ==
  {instead_source_path_prefix(PackagesOf(n)[k].search_paths[i]) :
     i \in 1..Len(PackagesOf(n)[k].search_paths)}

DeclaredFlag(n, k) ==
  /\ PackagesOf(n)[k].rest # <<>>
  /\ PackagesOf(n)[k].rest[1] = "cmake::configd"

SeveralDeclare(r, name) ==
  Cardinality({n \in Merged(r) : DeclarationsOf(n, name) # {}}) >= 2

C11_PackageMerge ==
  \A r \in Resolved :
    \A name \in PackageNames :
      SeveralDeclare(r, name) =>
        /\ name \in DOMAIN r.packageRequirements
        /\ r.packageRequirements[name].search_paths =
             UNION {UNION {DeclaredPaths(n, k) : k \in DeclarationsOf(n, name)} :
                      n \in Merged(r)}
        /\ r.packageRequirements[name].configd =
             (\E n \in Merged(r) :
                \E k \in DeclarationsOf(n, name) : DeclaredFlag(n, k))

(* What the code does keep: of each merged node the last declaration of    *)
(* the name, the earlier ones of the same node being overwritten in        *)
(* find_all_deps_packages.                                                 *)

LastDeclaration(n, name) == Max(DeclarationsOf(n, name))

MergeOfLastDeclarations ==
  \A r \in Resolved :
    \A name \in PackageNames :
      LET declaring == {n \in Merged(r) : DeclarationsOf(n, name) # {}}
      IN  IF declaring = {} THEN name \notin DOMAIN r.packageRequirements
          ELSE
            /\ name \in DOMAIN r.packageRequirements
            /\ r.packageRequirements[name].search_paths =
                 UNION {DeclaredPaths(n, LastDeclaration(n, name)) :
                          n \in declaring}
            /\ r.packageRequirements[name].configd =
                 (\E n \in declaring :
                    DeclaredFlag(n, LastDeclaration(n, name)))

------------------------------------------------------------------------------
(* C12: after a resolve, the dep_actions of the root and of every          *)
(* non-barrier node the walk came to hold the cmake name of every script   *)
(* node (copy, action, action_foreach) that the node reaches along deps    *)
(* paths through no barrier.                                                *)

ScriptNode(n) == targets[n].type \in SCRIPT_TARGETS

\* the script nodes n depends on along deps paths through no barrier
ScriptsBelow(n) ==
  {sc \in FollowedFrom({n}, n) :
     /\ ScriptNode(sc)
     /\ \E m \in FollowedFrom({n}, n) :
          (m = n \/ ~BarrierNode(m)) /\ sc \in DepsOf(m)}

C12_ScriptActions ==
  \A r \in Resolved :
    \A n \in r.visited :
      (n = r.root \/ ~BarrierNode(n)) =>
        \A sc \in ScriptsBelow(n) :
          Target(sc).value.cmake_name \in r.dep_actions[n]

------------------------------------------------------------------------------
(* C13: the view of a node whose sub_cmake_target_and_link lists existing  *)
(* ids is built without an exception, holds the output_name of each listed *)
(* id among its libs, and holds each listed id among its nested roots      *)
(* (sub_cmake_target).                                                      *)

AndLink(n) == targets[n].metadata.sub_cmake_target_and_link

\* the nodes whose view the next step of the run builds
ViewsAhead ==
  IF at_root THEN {cmake_targets[ri]}
  ELSE IF has_dep /\ dep \in DOMAIN targets THEN {dep}
  ELSE {}

\* the step that builds the view of n builds it as the claim says
BuildsAndLinkView(n) ==
  /\ Target(n).raised = "none"
  /\ error' # "NameError"
  /\ \A x \in Range(AndLink(n)) :
       /\ targets[x].output_name \in Range(Target(n).value.libs)
       /\ x \in Range(Target(n).value.sub_cmake_target)

C13_SubCmakeAndLink ==
  [][\A n \in ViewsAhead :
       (AndLink(n) # <<>> /\ Range(AndLink(n)) \subseteq DOMAIN targets) =>
         BuildsAndLinkView(n)]_vars

------------------------------------------------------------------------------
(* C14: no step of gn_to_cmake, neither the building of a node view nor a  *)
(* step of find_all_dependencies, changes project.targets: every record,   *)
(* its libs, deps, sources and metadata included, stays as it was loaded.  *)

C14_StoreUnchanged == [][targets' = targets]_vars

\* the view of a node that carries libs and lists a nested root to link was
\* asked for in the deps loop of a resolve
C14_Witness ==
  /\ pc = "crashed" /\ error = "NameError"
  /\ stack # <<>>
  /\ top.i <= Len(deps_of_top) /\ dep \in DOMAIN targets
  /\ AndLink(dep) # <<>> /\ targets[dep].libs # <<>>

------------------------------------------------------------------------------
(* C20: two calls of get_cmake_target_name on one gn name come to the same *)
(* outcome; and when a gn name without a toolchain gets a name, the same   *)
(* gn name followed by a (non-empty) toolchain in parentheses gets a name  *)
(* too, and a different one.                                                *)

NonEmptyToolchains == {t[1] : t \in {u \in Toolchains : u # <<>> /\ u[1] # <<>>}}

------------------------------------------------------------------------------
(* C15: a flatten that comes back to a node it is flattening.               *)

\* some node is under construction twice: the flatten of a node has reached
\* the node itself
Reentered ==
  \E i, j \in 1..Len(frames) : i < j /\ frames[i].gn_name = frames[j].gn_name

\* C15: a flatten whose flatten_deps reach the node itself, directly or
\* transitively, stops with a CyclicFlatten error as it comes back to the
\* node; it does not recurse until the interpreter gives up.
C15_CyclicFlatten ==
  /\ Reentered => (pc = "crashed" /\ error = "CyclicFlatten")
  /\ error # "RecursionError"

\* What the code does with a cycle: every run that comes back to a node
\* goes on until the recursion limit.
RecursionOnlyOnCycle == error = "RecursionError" => Reentered

------------------------------------------------------------------------------
(* C16: a flatten_deps entry that is no subspec target.                     *)

FlattenDepsOf(n) ==
  {subspecs[n].metadata.flatten_deps[k] :
     k \in 1..Len(subspecs[n].metadata.flatten_deps)}

IsSubspecTarget(n) ==
  /\ n \in DOMAIN subspecs
  /\ get_first_var(subspecs[n].metadata.is_subspec_target, FALSE)

\* the flatten_deps of n that name a node of the project that is not flagged
\* is_subspec_target
IllegalFlattenDeps(n) ==
  {d \in FlattenDepsOf(n) : d \in DOMAIN subspecs /\ ~IsSubspecTarget(d)}

\* the innermost SubspecTarget under construction is of a node with such an
\* entry
BuildsWithIllegalDep ==
  /\ pc = "flatten" /\ frames # <<>>
  /\ top_frame.gn_name \in DOMAIN subspecs
  /\ IllegalFlattenDeps(top_frame.gn_name) # {}

\* C16: when a node's flatten_deps hold an id of a node that is not flagged
\* is_subspec_target, the construction of the node fails with an error at
\* its next step and no object has absorbed anything by then, whatever the
\* other entries of flatten_deps are.
C16_IllegalFlattenTarget ==
  [][BuildsWithIllegalDep =>
       /\ top_frame.phase = "called"
       /\ pc' = "crashed"
       /\ error' \in {"Exception", "KeyError", "ValueError"}
       /\ frames' = frames]_vars

\* A construction has failed with the illegal-target Exception although the
\* node's flatten_deps also name a flagged node.
C16_Witness ==
  /\ pc = "crashed" /\ error = "Exception"
  /\ frames # <<>>
  /\ top_frame.gn_name \in DOMAIN subspecs
  /\ IllegalFlattenDeps(top_frame.gn_name) # {}
  /\ \E d \in FlattenDepsOf(top_frame.gn_name) : IsSubspecTarget(d)
  /\ top_frame.phase = "called"

------------------------------------------------------------------------------
(* C17: the version kept when flatten meets a dependency twice.             *)

RECURSIVE FlattenClosure(_)
\* the nodes that S reaches through flatten_deps, S included
FlattenClosure(S) ==
  LET T == S \cup UNION {FlattenDepsOf(n) : n \in S \cap DOMAIN subspecs}
  IN  IF T = S THEN S ELSE FlattenClosure(T)

\* the versions at which the node n declares the dependency name
DeclaredBy(n, name) ==
  {subspecs[n].metadata.dependency[k].version[1] :
     k \in {i \in 1..Len(subspecs[n].metadata.dependency) :
              /\ subspecs[n].metadata.dependency[i].name = name
              /\ subspecs[n].metadata.dependency[i].version # <<>>}}

\* the versions at which the flattened node and the nodes it absorbs declare
\* the dependency name
DeclaredVersions(name) ==
  UNION {DeclaredBy(n, name) : n \in FlattenClosure({A}) \cap DOMAIN subspecs}

\* the k-th number of a dotted version, 0 past its end
VersionNumber(v, k) ==
  IF k <= Len(Split(v, ".")) THEN int_of(Split(v, ".")[k], 0) ELSE 0

\* w is not higher than v, number by number from the left
DottedLe(w, v) ==
  \A k \in 1..(Len(w) + Len(v)) :
    (\A j \in 1..(k - 1) : VersionNumber(w, j) = VersionNumber(v, j))
      => VersionNumber(w, k) <= VersionNumber(v, k)

\* C17: the flattened object keeps, for every dependency it has a version
\* of, the highest of the versions declared for it by the node and the nodes
\* it absorbed, the dotted versions being compared number by number.
C17_HigherVersion ==
  (pc = "done") =>
    \A name \in DOMAIN flattened[1].dependency_versions :
      /\ flattened[1].dependency_versions[name] \in DeclaredVersions(name)
      /\ \A w \in DeclaredVersions(name) :
           DottedLe(w, flattened[1].dependency_versions[name])

\* What the code keeps: a declared version whose digits, read as one number,
\* are not below those of any other declared version.
KeepsMostDigits ==
  (pc = "done") =>
    \A name \in DOMAIN flattened[1].dependency_versions :
      /\ flattened[1].dependency_versions[name] \in DeclaredVersions(name)
      /\ \A w \in DeclaredVersions(name) :
           string_to_int(w).value
             <= string_to_int(flattened[1].dependency_versions[name]).value

\* The example of the specification: 1.10.0 is kept over 1.2.0.
KeepsTenOverTwo ==
  (pc = "done" /\ DeclaredVersions("Bar") = {v_1_2_0, v_1_10_0}) =>
    flattened[1].dependency_versions["Bar"] = v_1_10_0

------------------------------------------------------------------------------
(* C18: header_dir and header_mappings_dir under flatten.                   *)

\* the objects under construction before and after the step, by depth
Surviving == {i \in 1..Len(frames) : i <= Len(frames')}

\* the step folds the innermost object into the one that asked for it
Absorbs == returned_to_loop /\ frames' # frames

\* no step puts another value in the place of a non-empty one
KeepsNonEmpty ==
  \A i \in Surviving :
    /\ frames[i].self.header_dir # ""
         => frames'[i].self.header_dir = frames[i].self.header_dir
    /\ frames[i].self.header_mappings_dir # ""
         => frames'[i].self.header_mappings_dir
              = frames[i].self.header_mappings_dir

\* an empty field takes the value of the object absorbed
TakesAbsorbed ==
  Absorbs =>
    /\ calling_frame.self.header_dir = ""
         => frames'[Len(frames')].self.header_dir = top_frame.self.header_dir
    /\ calling_frame.self.header_mappings_dir = ""
         => frames'[Len(frames')].self.header_mappings_dir
              = top_frame.self.header_mappings_dir

\* C18: flatten never puts another value in the place of a non-empty
\* header_dir or header_mappings_dir of the node that asked for it; while the
\* field is empty, absorbing a node gives it that node's value, so that the
\* first non-empty value absorbed stays.
C18_FirstWriterWins == [][KeepsNonEmpty /\ TakesAbsorbed]_vars

\* A has absorbed B, whose header_dir differs from A's own, and A's own
\* header_dir is the one the flattened object has.
C18_Witness ==
  /\ pc = "done"
  /\ B \in FlattenClosure({A})
  /\ subspecs[A].metadata.header_dir = <<"a">>
  /\ subspecs[B].metadata.header_dir = <<"b">>
  /\ flattened[1].header_dir = "a"

\* An empty header_dir of A has taken a value from one of two absorbed nodes
\* that disagree.
FirstAbsorbedStays ==
  /\ pc = "done"
  /\ subspecs[A].metadata.header_dir = <<>>
  /\ subspecs[B].metadata.header_dir = <<"b">>
  /\ subspecs[C].metadata.header_dir = <<"c">>
  /\ subspecs[A].metadata.flatten_deps = <<B, C>>
  /\ flattened[1].header_dir = "c"

------------------------------------------------------------------------------
(* C19: the list-valued attributes after flatten.                           *)

Entries(q) == {q[k] : k \in 1..Len(q)}

NoDuplicates(q) == \A i, j \in 1..Len(q) : i # j => q[i] # q[j]

\* the flattened object is there and has absorbed at least one node
HasFlattened == pc = "done" /\ FlattenClosure({A}) # {A}

\* the frameworks of the node and of every node it absorbed
AllFrameworks ==
  UNION {Entries(subspecs[n].metadata.frameworks) : n \in FlattenClosure({A})}

\* the source_files of the node and of every node it absorbed
AllSourceFiles ==
  UNION {Entries(format_root_path(subspecs[n].sources)) :
           n \in FlattenClosure({A})}

\* as sets, the lists of the flattened object are the unions
UnionOfAbsorbed ==
  HasFlattened =>
    /\ Entries(flattened[1].frameworks) = AllFrameworks
    /\ Entries(flattened[1].source_files) = AllSourceFiles

\* C19: after flatten the frameworks and the source_files of the flattened
\* object hold exactly the values of the node and of all the nodes it
\* absorbed, each value once.
C19_ListUnion ==
  /\ UnionOfAbsorbed
  /\ HasFlattened =>
       /\ NoDuplicates(flattened[1].frameworks)
       /\ NoDuplicates(flattened[1].source_files)

\* Where both the object and the node it absorbs bring values, the list that
\* comes out has each value once.
MergedOnceEach ==
  [][(Absorbs /\ calling_frame.self.frameworks # <<>>
        /\ top_frame.self.frameworks # <<>>)
       => NoDuplicates(frames'[Len(frames')].self.frameworks)]_vars

------------------------------------------------------------------------------
(* C21: the compression of the location.                                    *)

\* every path segment but the last cut to its first character
InitialsKeepingLast(path) ==
  LET parts == Split(path, "/")
      kept == [k \in 1..Len(parts) |->
                 IF k = Len(parts) \/ parts[k] = <<>> THEN parts[k]
                 ELSE <<parts[k][1]>>]
  IN  Join(kept, "/")

\* the gn names //location:name with both parts present and no toolchain
PlainLabels ==
  {[location |-> l, name |-> n[1], gn_name |-> Label(l, n, <<>>)] :
     l \in Locations \ {<<>>}, n \in Names \ {<<>>}}

\* C21: the name of //location:name is built from the location with every
\* path segment cut to its first character except the last one, which is
\* kept whole (foo/bar becomes f/bar).
C21_KeepsFinalSegment ==
  \A k \in 1..Len(identifiers) :
    \A g \in PlainLabels :
      (gn_names[k] = g.gn_name /\ identifiers[k].raised = "none")
        => identifiers[k].value
             = cmake_target_name_of(InitialsKeepingLast(g.location), g.name, <<>>)

\* What the code does to //foo/bar:bar: the last segment is cut as well.
CutsFinalSegment ==
  \A k \in 1..Len(identifiers) :
    gn_names[k] = <<"/", "/", "f", "o", "o", "/", "b", "a", "r", ":", "b", "a", "r">>
      => identifiers[k] = Returned(<<"f", "_", "_", "b", "_", "b", "a", "r">>)

------------------------------------------------------------------------------
(* C22: the characters of the name.                                         *)

\* [A-Za-z0-9_.+-]
NameCharacters == ascii_letters \cup digits \cup {"_", ".", "+", "-"}

RECURSIVE Underscored(_)
\* s with every character outside NameCharacters turned into two underscores
Underscored(s) ==
  IF s = <<>> THEN <<>>
  ELSE (IF s[1] \in NameCharacters THEN <<s[1]>> ELSE <<"_", "_">>)
         \o Underscored(Tail(s))

\* the name of //location:name(toolchain) before it is escaped
UnescapedName(location, name, toolchain) ==
  LET initials == IF location # <<>> THEN extract_initial_path(location)
                  ELSE location
  IN  (IF EndsWith(initials, <<"/">> \o name) THEN initials
       ELSE IF initials # <<>> THEN initials \o <<"_">> \o name
       ELSE name)
      \o (IF toolchain # <<>> /\ toolchain[1] # <<>>
          THEN <<"-", "-">> \o toolchain[1] ELSE <<>>)

\* C22: a name that get_cmake_target_name returns has only characters of
\* [A-Za-z0-9_.+-]; it is the unescaped name with every character outside
\* that set replaced by two underscores and every other character in place.
C22_EscapedCharacters ==
  \A k \in 1..Len(identifiers) :
    identifiers[k].raised = "none" =>
      /\ \A i \in 1..Len(identifiers[k].value) :
           identifiers[k].value[i] \in NameCharacters
      /\ \A l \in Locations, n \in Names \ {<<>>}, t \in Toolchains :
           gn_names[k] = Label(l, n, t)
             => identifiers[k].value = Underscored(UnescapedName(l, n[1], t))

\* //a/b:c(//toolchain:x) has got its name: the '/' of the location and the
\* '/' and ':' of the toolchain are underscores in it.
C22_Witness ==
  /\ Len(identifiers) >= 1
  /\ gn_names[1] = Label(<<"a", "/", "b">>, <<<<"c">>>>, <<toolchain_x>>)
  /\ identifiers[1] =
       Returned(<<"a", "_", "_", "b", "_", "c", "-", "-", "_", "_", "_", "_",
                  "t", "o", "o", "l", "c", "h", "a", "i", "n", "_", "_", "x">>)

------------------------------------------------------------------------------
(* C23: two gn names and their cmake names.                                 *)

\* C23: two different gn names that both get a cmake name get different
\* ones, so that the names of two script nodes are two entries of a set of
\* dep_actions.
C23_DistinctNames ==
  (/\ Len(identifiers) = 2
   /\ gn_names[1] # gn_names[2]
   /\ identifiers[1].raised = "none" /\ identifiers[2].raised = "none")
    => identifiers[1].value # identifiers[2].value

\* Two locations that differ after the first character of a path segment
\* have one name.
SameInitialsCollide ==
  /\ Len(identifiers) = 2
  /\ gn_names[1] = Label(<<"a", "/", "b">>, <<<<"c">>>>, <<>>)
  /\ gn_names[2] = Label(<<"a", "b", "/", "b">>, <<<<"c">>>>, <<>>)
  /\ identifiers[1] = Returned(<<"a", "_", "_", "b", "_", "c">>)
  /\ identifiers[2] = identifiers[1]

------------------------------------------------------------------------------
(* C24: two non-empty dependency_versions under flatten.                    *)

\* the innermost object has returned to the loop of the one that asked for
\* it, and both have versions
BothVersioned ==
  /\ returned_to_loop
  /\ DOMAIN calling_frame.self.dependency_versions # {}
  /\ DOMAIN top_frame.self.dependency_versions # {}

\* the keys that only d has of d and e
OnlyIn(d, e) == DOMAIN d \ DOMAIN e

\* C24: when the object and the one it absorbs both have a non-empty
\* dependency_versions, the step merges them: the keys of the merged dict
\* are the keys of both, and a key that one side alone has keeps the version
\* of that side.
C24_KeyByKeyMerge ==
  [][BothVersioned =>
       /\ pc' = "flatten"
       /\ Len(frames') = Len(frames) - 1
       /\ DOMAIN frames'[Len(frames')].self.dependency_versions
            = DOMAIN calling_frame.self.dependency_versions
                \cup DOMAIN top_frame.self.dependency_versions
       /\ \A key \in OnlyIn(calling_frame.self.dependency_versions,
                            top_frame.self.dependency_versions) :
            frames'[Len(frames')].self.dependency_versions[key]
              = calling_frame.self.dependency_versions[key]
       /\ \A key \in OnlyIn(top_frame.self.dependency_versions,
                            calling_frame.self.dependency_versions) :
            frames'[Len(frames')].self.dependency_versions[key]
              = top_frame.self.dependency_versions[key]]_vars

\* What the code does: the merge goes through exactly when the two sides
\* have the same keys, and ends in a TypeError otherwise.
MergesSameKeysOnly ==
  [][BothVersioned =>
       IF DOMAIN calling_frame.self.dependency_versions
            = DOMAIN top_frame.self.dependency_versions
       THEN pc' = "flatten"
       ELSE pc' = "crashed" /\ error' = "TypeError"]_vars

------------------------------------------------------------------------------
(* C25: the order in which flatten absorbs.                                 *)

RECURSIVE FlattenedInOrder(_)
RECURSIVE AbsorbedInOrder(_, _)
\* the object of the node n when every flatten absorbs its nodes in the
\* sorted order of their ids
FlattenedInOrder(n) ==
  AbsorbedInOrder(SubspecTarget_attributes(n).value,
                  sorted_set(FlattenDepsOf(n)))

\* self after the nodes of the list are absorbed one after the other
AbsorbedInOrder(self, flatten_targets) ==
  IF flatten_targets = <<>> THEN self
  ELSE AbsorbedInOrder(
         flattened_with(
           self, FlattenedInOrder(flatten_targets[1]),
           add_dict_params(
             self.dependency_versions,
             FlattenedInOrder(flatten_targets[1]).dependency_versions).value),
         Tail(flatten_targets))

\* C25: whatever order the nodes are absorbed in, the flattened object is
\* the one that absorbing them in sorted order gives: the outcome of
\* flatten is a function of the graph, its header_dir and
\* header_mappings_dir included.
C25_OrderIndependent ==
  (pc = "done") => flattened[1] = FlattenedInOrder(A)

\* The lists and the versions do not depend on the order.
ListsOrderIndependent ==
  (pc = "done") =>
    /\ flattened[1].frameworks = FlattenedInOrder(A).frameworks
    /\ flattened[1].source_files = FlattenedInOrder(A).source_files
    /\ flattened[1].dependency_versions
         = FlattenedInOrder(A).dependency_versions

------------------------------------------------------------------------------
(* C26: a non-barrier node that is not useful.                              *)

\* the nodes of a resolve whose deps loop ran and that are not useful
Helpers(r) ==
  {n \in r.visited : (n = r.root \/ ~BarrierNode(n)) /\ ~UsefulNode(n)}

\* the nodes that a resolve can come to only through its node n: the deps
\* of n that no other walked node has among its deps
OnlyThrough(r, n) ==
  {d \in DepsOf(n) \ {r.root} :
     \A m \in Walked(r.root) \ {n} :
       (m = r.root \/ ~BarrierNode(m)) => d \notin DepsOf(m)}

\* C26: a node that is no barrier and not useful is not among the source
\* targets of a resolve, and its deps loop has run all the same: each of
\* its deps has been visited, a useful non-barrier one is among the source
\* targets, and the name of a script one is among the root's dep_actions.
C26_HelperDepsWalked ==
  \A r \in Resolved :
    \A n \in Helpers(r) :
      /\ n \notin Range(r.sourceUnits)
      /\ \A d \in DepsOf(n) :
           /\ d \in r.visited
           /\ (d # r.root /\ ~BarrierNode(d) /\ UsefulNode(d))
                => d \in Range(r.sourceUnits)
           /\ ScriptNode(d) => Target(d).value.cmake_name \in r.scriptActions

\* A resolve has come through a node that is not useful to a useful node
\* and to a script node that nothing else leads to.
C26_Witness ==
  \E r \in Resolved :
    \E n \in Helpers(r) \ {r.root} :
      /\ n \notin Range(r.sourceUnits)
      /\ \E d \in OnlyThrough(r, n) :
           /\ ~BarrierNode(d) /\ UsefulNode(d) /\ ScriptNode(d)
           /\ d \in Range(r.sourceUnits)
           /\ Target(d).value.cmake_name \in r.scriptActions

------------------------------------------------------------------------------
(* C27: the dep_actions of the root.                                        *)

\* the script nodes that the deps loops of a resolve have come to
ScriptsReached(r) ==
  {sc \in r.visited :
     /\ ScriptNode(sc)
     /\ \E m \in r.visited : (m = r.root \/ ~BarrierNode(m)) /\ sc \in DepsOf(m)}

\* C27: after a resolve, on a graph with cycles or without, the dep_actions
\* of the root hold the cmake name of every script node that the walk has
\* reached, which is every script node the root depends on along deps paths
\* through no barrier.
C27_RootScriptActions ==
  \A r \in Resolved :
    /\ ScriptsReached(r) = ScriptsBelow(r.root)
    /\ \A sc \in ScriptsReached(r) :
         Target(sc).value.cmake_name \in r.scriptActions

\* A resolve of a root on a deps cycle has returned: a script node below the
\* cycle is among the root's dep_actions and missing from those of another
\* node of the cycle.
C27_Witness ==
  \E r \in Resolved :
    \E n \in r.visited \ {r.root} :
      /\ ~BarrierNode(n)
      /\ r.root \in DepsOf(n) /\ n \in DepsOf(r.root)
      /\ \E sc \in ScriptsBelow(n) \cap ScriptsReached(r) :
           /\ Target(sc).value.cmake_name \in r.scriptActions
           /\ Target(sc).value.cmake_name \notin r.dep_actions[n]

------------------------------------------------------------------------------
(* C28: write_project over the nested roots.                                *)

\* a write_project call is under way inside a call for the same target
NestedTwice ==
  \E i, j \in 1..Len(nested) : i < j /\ nested[i].target = nested[j].target

\* C28: the write_project calls for a root and its nested roots come to an
\* end on every graph, also when a nested root names a root above it: the
\* nesting of the calls never grows until the interpreter gives up.
C28_NestedRootsTerminate == error # "RecursionError"

\* What the code does: the calls nest beyond every node of the graph only
\* where a nested root names a root above it, and then they do.
RecursionOnlyOnNestedCycle ==
  /\ error = "RecursionError" => NestedTwice
  /\ (NestedTwice /\ pc = "crashed") => error = "RecursionError"

\* Nested roots that name no root above them are written, each after the
\* other, and gn_to_cmake returns.
NestedRootsWritten ==
  /\ pc = "done"
  /\ cmake_targets = <<A>>
  /\ targets[A].metadata.sub_cmake_target = <<B, C>>
  /\ targets[B].metadata.sub_cmake_target = <<C>>
  /\ Len(results) = 4


------------------------------------------------------------------------------
(* C29: the deps of a barrier are not looked up.                            *)

\* the nodes that r.root reaches only through the deps of barriers
BehindBarriers(r) == DOMAIN targets \ Walked(r.root)

\* the package names that a node of S declares
DeclaredIn(S) ==
  UNION {{PackagesOf(n)[k].name : k \in 1..Len(PackagesOf(n))} : n \in S}

\* the names of the script nodes of S
ScriptNamesOf(S) ==
  {Target(sc).value.cmake_name : sc \in {n \in S : ScriptNode(n)}}

\* the ids that occur among the deps of a node that is no barrier, or of root
LookedUpFrom(root) ==
  UNION {DepsOf(m) :
           m \in {n \in Walked(root) : n = root \/ ~BarrierNode(n)}}

\* C29: recursive_find_dependent_targets never runs the deps loop of a
\* barrier it comes to: no frame of the walk below the root's is one of a
\* barrier.  A node that the root reaches only through the deps of barriers
\* is therefore not visited by a resolve, is in neither of its two lists,
\* and adds no script name and no package to it; and a KeyError of the walk
\* is for an id among the deps of the root or of a walked non-barrier, never
\* for one that only barriers have among their deps.
C29_BarrierDepsNotLookedUp ==
  /\ \A k \in 2..Len(stack) : ~BarrierNode(stack[k].target)
  /\ \A r \in Resolved :
       /\ \A n \in BehindBarriers(r) : n \notin r.visited /\ n \notin Units(r)
       /\ r.scriptActions \subseteq ScriptNamesOf(Walked(r.root))
       /\ DOMAIN r.packageRequirements \subseteq DeclaredIn(Walked(r.root))
  /\ (pc = "crashed" /\ error = "KeyError" /\ stack # <<>>)
       => /\ top.i <= Len(deps_of_top)
          /\ dep \notin DOMAIN targets
          /\ dep \in LookedUpFrom(start_target)

\* A resolve has returned with a barrier among its binary targets that has
\* among its deps an id absent from the project, which no node whose deps
\* loop ran has among its deps.
C29_Witness ==
  \E r \in Resolved :
    \E b \in Range(r.barrierUnits) :
      \E d \in DepsOf(b) :
        d \notin DOMAIN targets /\ d \notin LookedUpFrom(r.root)

\* A resolve has returned with a barrier that has among its deps a script
\* node or a node declaring a package that the root reaches in no other way.
BehindBarrierLeftOut ==
  \E r \in Resolved :
    \E b \in Range(r.barrierUnits) :
      \E d \in DepsOf(b) \cap BehindBarriers(r) :
        ScriptNode(d) \/ PackagesOf(d) # <<>>


------------------------------------------------------------------------------
(* C30: labels without a name part.                                         *)

\* the toolchain parts of the documented shape
NamedToolchains == {<<>>, <<toolchain_x>>, <<<<"t">>>>}

\* the labels //location[:name][(toolchain)] with a location
DocumentedLabels ==
  {Label(l, n, t) : l \in Locations \ {<<>>}, n \in Names, t \in NamedToolchains}

\* those of them with no :name part, without and with a toolchain
NamelessLabels ==
  {Label(l, <<>>, <<>>) : l \in Locations \ {<<>>}}

ToolchainOnlyLabels ==
  {Label(l, <<>>, t) : l \in Locations \ {<<>>}, t \in NamedToolchains \ {<<>>}}

\* C30: get_cmake_target_name returns a name, and raises nothing, for every
\* label of the shape //location[:name][(toolchain)], the labels with no
\* :name part included (//a/b, and //a/b(//toolchain:x)).
C30_EveryLabelNamed ==
  \A k \in 1..Len(identifiers) :
    gn_names[k] \in DocumentedLabels => identifiers[k].raised = "none"

\* What the code does: a label with a :name part gets a name; one with
\* neither ":" nor "(" makes find_first_of raise ValueError (min of nothing),
\* and one with a toolchain only raises TypeError ('/' + None).
NamelessLabelsRaise ==
  \A k \in 1..Len(identifiers) :
    gn_names[k] \in DocumentedLabels =>
      identifiers[k].raised =
        IF gn_names[k] \in NamelessLabels THEN "ValueError"
        ELSE IF gn_names[k] \in ToolchainOnlyLabels THEN "TypeError"
        ELSE "none"
====
